---- MODULE Spec2Model ----
(***************************************************************************)
(* rocketlaunch_feishu: the sync planner (prepare_feishu_sync), the        *)
(* resumable sync executor (execute_feishu_sync) and the Feishu helper     *)
(* calls they make, as a state machine over the files and the remote       *)
(* table they share.                                                       *)
(*                                                                         *)
(* Encoding.  A Python Optional[int] is a sequence of length 0 or 1        *)
(* (None == <<>>, the integer x == <<x>>).  A Python str is a sequence of   *)
(* one-character strings so that strip() and lower() are computed.  A JSON  *)
(* object read with dict.get() has a flag per optional key (ts_key: the     *)
(* key 'timestamp_ms' is present).  List indices are 0-based as in the      *)
(* source: record i of a list is list[i + 1] here.                          *)
(***************************************************************************)
EXTENDS Integers, Sequences, FiniteSets, TLC

\* The remote table accepts at most MaxRemote rows (a create beyond it fails).
MaxRemote == 3
\* At most MaxCommands CLI commands are started in one behaviour.
MaxCommands == 4

None == <<>>
Some(x) == <<x>>

\* ---------------------------------------------------------------- strings
\* str.lower() on one character (ASCII letters).
LowerChar(c) ==
  CASE c = "A" -> "a" [] c = "B" -> "b" [] c = "C" -> "c" [] c = "D" -> "d"
    [] c = "E" -> "e" [] c = "F" -> "f" [] c = "G" -> "g" [] c = "H" -> "h"
    [] c = "I" -> "i" [] c = "J" -> "j" [] c = "K" -> "k" [] c = "L" -> "l"
    [] c = "M" -> "m" [] c = "N" -> "n" [] c = "O" -> "o" [] c = "P" -> "p"
    [] c = "Q" -> "q" [] c = "R" -> "r" [] c = "S" -> "s" [] c = "T" -> "t"
    [] c = "U" -> "u" [] c = "V" -> "v" [] c = "W" -> "w" [] c = "X" -> "x"
    [] c = "Y" -> "y" [] c = "Z" -> "z"
    [] OTHER -> c

lower(s) == [k \in 1..Len(s) |-> LowerChar(s[k])]

\* The characters str.strip() removes and the regex class \s matches.
IsSpace(c) == c \in {" ", "\t", "\n", "\r", "\f"}

RECURSIVE lstrip(_)
lstrip(s) == IF s # <<>> /\ IsSpace(Head(s)) THEN lstrip(Tail(s)) ELSE s

RECURSIVE rstrip(_)
rstrip(s) ==
  IF s # <<>> /\ IsSpace(s[Len(s)]) THEN rstrip(SubSeq(s, 1, Len(s) - 1)) ELSE s

strip(s) == rstrip(lstrip(s))

\* ---------------------------------------------------------------- records
NEXTSPACEFLIGHT == "nextspaceflight.com"

\* A processed launch record as parse_launches_nextspaceflight builds it.
LaunchRecord(mission, ts_key, timestamp_ms, status) ==
  [mission |-> mission, ts_key |-> ts_key, timestamp_ms |-> timestamp_ms,
   status |-> status, source_name |-> NEXTSPACEFLIGHT]

\* launch.get('timestamp_ms'): None when the key is absent or holds None.
get_timestamp_ms(launch) ==
  IF launch.ts_key THEN launch.timestamp_ms ELSE None

\* launch.get('timestamp_ms', 0): the default is used only when the key is
\* absent; a key that holds None yields None.
get_timestamp_ms_default0(launch) ==
  IF launch.ts_key THEN launch.timestamp_ms ELSE Some(0)

\* The records the inputs are drawn from.
RecAb    == LaunchRecord(<<"A", "b">>, TRUE, Some(5), "Success")
Recab    == LaunchRecord(<<"a", "b">>, TRUE, Some(5), "Success")
RecNone  == LaunchRecord(<<" ", "a", "b", " ">>, TRUE, None, "TBD")
RecUnk   == LaunchRecord(<<"c">>, TRUE, None, "Unknown")
RecNoKey == LaunchRecord(<<"b">>, FALSE, None, "Scheduled")

\* The processed files the planner is given.
ProcessedInputs ==
  { <<>>,
    <<RecUnk>>,
    <<RecNone, RecAb, Recab>>,
    <<RecNoKey, RecUnk>> }

\* ------------------------------------------------------------ remote table
\* Mutant: a timestamp before the epoch is sent as 0.
add_launch_fields_clamped(launch) ==
  [mission |-> launch.mission,
   Source  |-> launch.source_name,
   time    |-> IF get_timestamp_ms(launch) # None
                  /\ get_timestamp_ms(launch)[1] < 0
               THEN Some(0) ELSE get_timestamp_ms(launch)]

\* The fields add_launch_to_bitable sends; the date field is left out (None)
\* when the record has no timestamp.
add_launch_fields(launch) ==
  [mission |-> launch.mission,
   Source  |-> launch.source_name,
   time    |-> get_timestamp_ms(launch)]

\* One search condition is <<field, operator, value>>; a filter is a
\* conjunction of conditions.
CondHolds(fields, cond) ==
  CASE cond[1] = "Source" /\ cond[2] = "is" -> fields.Source = cond[3]
    [] cond[1] = "time" /\ cond[2] = "is" ->
         fields.time # None /\ fields.time[1] = cond[3]
    [] cond[1] = "time" /\ cond[2] = "isGreaterOrEqual" ->
         fields.time # None /\ fields.time[1] >= cond[3]
    [] OTHER -> FALSE

FilterHolds(fields, filter) ==
  \A k \in 1..Len(filter) : CondHolds(fields, filter[k])

RECURSIVE SelectRows(_, _)
SelectRows(rows, filter) ==
  IF rows = <<>> THEN <<>>
  ELSE (IF FilterHolds(Head(rows), filter) THEN <<Head(rows)>> ELSE <<>>)
       \o SelectRows(Tail(rows), filter)

\* FeishuBitableHelper.list_records: the materialized list of matching rows
\* when every page request succeeds, None (here the response [ok |-> FALSE])
\* when one fails.
list_records(rows, filter, search_ok) ==
  IF search_ok THEN [ok |-> TRUE, items |-> SelectRows(rows, filter)]
  ELSE [ok |-> FALSE, items |-> <<>>]

\* ------------------------------------------------------------------- files
Paths == {"default", "explicit"}

NoFile == [exists |-> FALSE, data |-> <<>>]
JsonFile(data) == [exists |-> TRUE, data |-> data]

\* SHA-256 of the file's bytes, taken as collision free: the digest stands
\* for the content it was computed from.
generate_file_hash(data) == <<"sha256", data>>

NoProgress == [kind |-> "absent", source_file |-> "", file_hash |-> <<>>,
               next_index |-> 0]
CorruptProgress == [kind |-> "corrupt", source_file |-> "", file_hash |-> <<>>,
                    next_index |-> 0]
ProgressJson(source_file, file_hash, next_index) ==
  [kind |-> "json", source_file |-> source_file, file_hash |-> file_hash,
   next_index |-> next_index]

\* ----------------------------------------------------------------- planner
\* Mutant: the timestamp is tested for truth, which drops a timestamp of 0.
is_valid_for_sync_truthy(l_item) ==
  (get_timestamp_ms(l_item) # None /\ get_timestamp_ms(l_item) # Some(0))
  \/ l_item.status \in {"Scheduled", "TBD"}

\* cli.py 326: the sync-eligibility test.
is_valid_for_sync(l_item) ==
  get_timestamp_ms(l_item) # None \/ l_item.status \in {"Scheduled", "TBD"}

valid_launches_for_sync(processed_launches) ==
  SelectSeq(processed_launches, is_valid_for_sync)

actual_timestamps_ms(valid) ==
  { get_timestamp_ms(valid[k])[1] :
      k \in { j \in 1..Len(valid) : get_timestamp_ms(valid[j]) # None } }

oldest_timestamp_ms_in_scrape(valid) ==
  IF actual_timestamps_ms(valid) = {} THEN 0
  ELSE CHOOSE m \in actual_timestamps_ms(valid) :
         \A x \in actual_timestamps_ms(valid) : m <= x

\* Mutant: the time condition is added even when no record has a timestamp.
filter_for_feishu_always_time(valid, source_value_from_file) ==
  << <<"Source", "is", source_value_from_file>>,
     <<"time", "isGreaterOrEqual", oldest_timestamp_ms_in_scrape(valid)>> >>

filter_for_feishu(valid, source_value_from_file) ==
  <<  <<"Source", "is", source_value_from_file>>  >>
  \o (IF actual_timestamps_ms(valid) # {}
      THEN << <<"time", "isGreaterOrEqual", oldest_timestamp_ms_in_scrape(valid)>> >>
      ELSE <<>>)

\* cli.py 377-393.  list_records returns a plain list (or None): a None or
\* an empty list is falsy and leaves the key set empty; a non-empty list is
\* truthy, and the read of its attribute .items raises AttributeError, so
\* the loop that would build the keys of the existing rows never runs.
existing_records_tuples(response) ==
  IF response.ok /\ response.items # <<>>
  THEN [raised |-> TRUE, keys |-> {}]
  ELSE [raised |-> FALSE, keys |-> {}]

\* cli.py 397-401: the key of an input record.
current_launch_tuple(launch_item) ==
  << get_timestamp_ms_default0(launch_item),
     launch_item.source_name,
     lower(strip(launch_item.mission)) >>

new_launches_to_add_to_feishu(valid, existing) ==
  SelectSeq(valid, LAMBDA l : current_launch_tuple(l) \notin existing)

\* Mutant: a missing timestamp sorts as 0.
SortKeyLess_none_as_zero(a, b) ==
  (IF a = None THEN 0 ELSE a[1]) < (IF b = None THEN 0 ELSE b[1])

\* cli.py 406: list.sort (stable) on timestamp_ms, None as +infinity.
SortKeyLess(a, b) == a # None /\ (b = None \/ a[1] < b[1])

RECURSIVE InsertSorted(_, _)
InsertSorted(x, s) ==
  IF s = <<>> THEN <<x>>
  ELSE IF SortKeyLess(get_timestamp_ms(x), get_timestamp_ms(Head(s)))
       THEN <<x>> \o s
       ELSE <<Head(s)>> \o InsertSorted(x, Tail(s))

RECURSIVE sort_by_timestamp(_)
sort_by_timestamp(s) ==
  IF s = <<>> THEN <<>>
  ELSE InsertSorted(s[Len(s)], sort_by_timestamp(SubSeq(s, 1, Len(s) - 1)))

\* prepare_feishu_sync as a function of the processed file, the option
\* --output-to-sync-file (None or Some(path)), the rows of the remote table
\* and whether the search requests succeed.  result is "return" or "exit1";
\* write says whether the to-sync file `path` is overwritten with `data`.
prepare_feishu_sync(processed_launches, output_to_sync_file, rows, search_ok) ==
  LET valid    == valid_launches_for_sync(processed_launches)
      path     == IF output_to_sync_file = None THEN "default"
                  ELSE output_to_sync_file[1]
      nothing  == [result |-> "return", write |-> output_to_sync_file # None,
                   path |-> path, data |-> <<>>, queried |-> FALSE,
                   query_failed |-> FALSE, filter |-> <<>>, items |-> <<>>,
                   processed |-> processed_launches]
  IN
  IF processed_launches = <<>> THEN nothing
  ELSE IF processed_launches[1].source_name = ""
  THEN [nothing EXCEPT !.result = "exit1", !.write = FALSE]
  ELSE IF valid = <<>> THEN nothing
  ELSE
    LET filter   == filter_for_feishu(valid, processed_launches[1].source_name)
        response == list_records(rows, filter, search_ok)
        existing == existing_records_tuples(response)
        new      == new_launches_to_add_to_feishu(valid, existing.keys)
        report   == [result |-> "return", write |-> TRUE, path |-> path,
                     data |-> sort_by_timestamp(new), queried |-> TRUE,
                     query_failed |-> ~response.ok, filter |-> filter,
                     items |-> response.items,
                     processed |-> processed_launches]
    IN IF existing.raised
       THEN [report EXCEPT !.result = "exit1", !.write = FALSE, !.data = <<>>]
       ELSE report

\* ------------------------------------------------------------------- state
VARIABLES
  commands,         \* CLI commands started so far
  to_sync,          \* the to-sync files, by path
  progress,         \* SYNC_PROGRESS_FILE
  remote,           \* the rows of the Feishu table, in creation order
  plan,             \* what the last prepare_feishu_sync run did
  pc,               \* position of execute_feishu_sync
  to_sync_file,     \* its argument --to-sync-file
  enable_pre_add_check,
  launches_to_sync, \* the list it loaded
  start_index,
  i,                \* loop index
  successfully_added_count,
  skipped_due_to_pre_check,
  log,              \* this run's attempts: <<index, outcome, check>>
  interrupted_created, \* indices created by the killed run this one resumes
  attempted_ever,   \* <<path, hash, index>> of every attempt made so far
  html_data,        \* the page fetch_data downloaded: its source and cards
  processed_file,   \* the processed-data file fetch_data writes
  fetch_exit,       \* how the last fetch_data ended: none, return, exit1
  parser_call,      \* the last direct call of a function of html_parser
  search            \* the call of list_records under way: its loop state

vars == << commands, to_sync, progress, remote, plan, pc, to_sync_file,
           enable_pre_add_check, launches_to_sync, start_index, i,
           successfully_added_count, skipped_due_to_pre_check, log,
           interrupted_created, attempted_ever,
           html_data, processed_file, fetch_exit, parser_call, search >>

\* The state of the fetch stage, which the planner and the executor leave
\* alone.
fetch_vars == << html_data, processed_file, fetch_exit >>
call_vars == << parser_call, search >>
parse_vars == << fetch_vars, call_vars >>

\* The state of the planner and the executor, which the fetch stage leaves
\* alone.
sync_vars == << commands, to_sync, progress, remote, plan, pc, to_sync_file,
                enable_pre_add_check, launches_to_sync, start_index, i,
                successfully_added_count, skipped_due_to_pre_check, log,
                interrupted_created, attempted_ever >>

NoPage == [source |-> "", cards |-> <<>>]
NoCall == [called |-> FALSE]
NoSearch == [pc |-> "idle"]

\* Nothing was fetched in this behaviour: the planner is given its input.
NothingFetched ==
  /\ html_data = NoPage
  /\ processed_file = NoFile
  /\ fetch_exit = "none"
  /\ parser_call = NoCall
  /\ search = NoSearch

exec_locals == << to_sync_file, enable_pre_add_check, launches_to_sync,
                  start_index, i, successfully_added_count,
                  skipped_due_to_pre_check, log,
                  interrupted_created >>

\* The executor is not running: never started, returned, exited with an
\* error, or killed.
Stopped == {"idle", "done", "aborted", "crashed"}

NoPlan == [result |-> "none", write |-> FALSE, path |-> "default",
           data |-> <<>>, queried |-> FALSE, query_failed |-> FALSE,
           filter |-> <<>>, items |-> <<>>, processed |-> <<>>]

Init ==
  /\ commands = 0
  /\ to_sync = [p \in Paths |-> NoFile]
  /\ progress = NoProgress
  /\ remote = <<>>
  /\ plan = NoPlan
  /\ pc = "idle"
  /\ to_sync_file = "default"
  /\ enable_pre_add_check = FALSE
  /\ launches_to_sync = <<>>
  /\ start_index = 0
  /\ i = 0
  /\ successfully_added_count = 0
  /\ skipped_due_to_pre_check = 0
  /\ log = <<>>
  /\ interrupted_created = {}
  /\ attempted_ever = {}
  /\ NothingFetched

\* One command of the CLI runs at a time; starting a command replaces the
\* process of the previous one, whose local variables and report are gone.
NoExecutor ==
  /\ pc' = "idle"
  /\ to_sync_file' = "default"
  /\ enable_pre_add_check' = FALSE
  /\ launches_to_sync' = <<>>
  /\ start_index' = 0
  /\ i' = 0
  /\ successfully_added_count' = 0
  /\ skipped_due_to_pre_check' = 0
  /\ log' = <<>>
  /\ interrupted_created' = {}

\* Mutant: records already in the to-sync file at the output path are not
\* planned again.
PrepareUnplannedOnly(processed_launches, output_to_sync_file, search_ok) ==
  /\ pc \in Stopped
  /\ commands < MaxCommands
  /\ commands' = commands + 1
  /\ LET r == prepare_feishu_sync(processed_launches, output_to_sync_file,
                                  remote,
                                  search_ok)
     IN /\ plan' = r
        /\ to_sync' = IF r.write
                      THEN [to_sync EXCEPT ![r.path] = JsonFile(
                             SelectSeq(r.data, LAMBDA l :
                               \A k \in 1..Len(to_sync[r.path].data) :
                                 to_sync[r.path].data[k] # l))]
                      ELSE to_sync
  /\ NoExecutor
  /\ UNCHANGED << parse_vars, progress, remote, attempted_ever >>

\* The command prepare-feishu-sync, whole.  Its input is the content of the
\* file --processed-file names, as fetch_data left it.
Prepare(processed_launches, output_to_sync_file, search_ok) ==
  /\ pc \in Stopped
  /\ commands < MaxCommands
  /\ commands' = commands + 1
  /\ LET r == prepare_feishu_sync(processed_launches, output_to_sync_file,
                                  remote,
                                  search_ok)
     IN /\ plan' = r
        /\ to_sync' = IF r.write
                      THEN [to_sync EXCEPT ![r.path] = JsonFile(r.data)]
                      ELSE to_sync
  /\ NoExecutor
  /\ UNCHANGED << parse_vars, progress, remote, attempted_ever >>

\* ---------------------------------------------------------------- executor
current_file_hash == generate_file_hash(launches_to_sync)

\* Indices whose create succeeded according to a run's log.
CreatedIn(lg) == { lg[k][1] : k \in { j \in 1..Len(lg) : lg[j][2] = "created" } }

\* Mutant: the content hash is not compared.
resume_index_ignoring_hash(prog, path, data) ==
  IF prog.kind = "json" /\ prog.source_file = path
  THEN prog.next_index
  ELSE 0

\* Mutant: the stored progress is never used.
resume_index_from_zero(prog, path, data) == 0

\* Mutant: the name of the source file is not compared.
resume_index_ignoring_source(prog, path, data) ==
  IF prog.kind = "json" /\ prog.file_hash = generate_file_hash(data)
  THEN prog.next_index
  ELSE 0

\* cli.py 456-465: the index the loop starts from.
resume_index(prog, path, data) ==
  IF /\ prog.kind = "json"
     /\ prog.source_file = path
     /\ prog.file_hash = generate_file_hash(data)
  THEN prog.next_index
  ELSE 0

\* The result of `with open(SYNC_PROGRESS_FILE, 'w') as f: json.dump(obj, f)`:
\* the new object, or on an I/O error the old file (open failed) or a
\* truncated, unreadable one (the write failed after open).
write_progress(outcome, obj) ==
  CASE outcome = "ok" -> obj
    [] outcome = "open_failed" -> progress
    [] outcome = "write_failed" -> CorruptProgress

WriteOutcomes == {"ok", "open_failed", "write_failed"}

\* cli.py 433-480: everything before the loop, given the to-sync files.
execute_feishu_sync_start(files, path, pre_add_check) ==
  /\ to_sync_file' = path
  /\ enable_pre_add_check' = pre_add_check
  /\ successfully_added_count' = 0
  /\ skipped_due_to_pre_check' = 0
  /\ log' = <<>>
  /\ LET data  == files[path].data
         same  == /\ files[path].exists
                  /\ to_sync_file = path
                  /\ launches_to_sync = data
         start == resume_index(progress, path, data)
     IN
     /\ interrupted_created' = IF pc = "crashed" /\ same
                               THEN CreatedIn(log) ELSE {}
     /\ launches_to_sync' = data
     /\ IF ~files[path].exists
        THEN /\ pc' = "aborted"
             /\ start_index' = 0
             /\ i' = 0
             /\ UNCHANGED progress
        ELSE IF data = <<>>
        THEN /\ pc' = "done"
             /\ progress' = IF progress.kind = "json"
                               /\ progress.source_file = path
                            THEN NoProgress ELSE progress
             /\ start_index' = 0
             /\ i' = 0
        ELSE IF start >= Len(data)
        THEN /\ pc' = "done"
             /\ progress' = NoProgress
             /\ start_index' = start
             /\ i' = start
        ELSE /\ pc' = "pre_write"
             /\ start_index' = start
             /\ i' = start
             /\ UNCHANGED progress

\* The command execute-feishu-sync is started.
ExecStart(path, pre_add_check) ==
  /\ pc \in Stopped
  /\ commands < MaxCommands
  /\ commands' = commands + 1
  /\ execute_feishu_sync_start(to_sync, path, pre_add_check)
  /\ plan' = NoPlan
  /\ UNCHANGED << parse_vars, to_sync, remote, attempted_ever >>

\* Mutant: the checkpoint before the attempt already names the next record.
ExecPreWriteNextIndex(outcome) ==
  /\ pc = "pre_write"
  /\ progress' = write_progress(outcome,
                   ProgressJson(to_sync_file, current_file_hash, i + 1))
  /\ pc' = IF outcome = "ok" THEN "attempt" ELSE "aborted"
  /\ UNCHANGED << parse_vars, commands, to_sync, remote, plan, exec_locals,
                  attempted_ever >>

\* Mutant: a failed checkpoint before the attempt is logged and ignored.
ExecPreWriteContinue(outcome) ==
  /\ pc = "pre_write"
  /\ progress' = write_progress(outcome,
                   ProgressJson(to_sync_file, current_file_hash, i))
  /\ pc' = "attempt"
  /\ UNCHANGED << parse_vars, commands, to_sync, remote, plan, exec_locals,
                  attempted_ever >>

\* cli.py 484-490: the checkpoint before the attempt; a failure exits.
ExecPreWrite(outcome) ==
  /\ pc = "pre_write"
  /\ progress' = write_progress(outcome,
                   ProgressJson(to_sync_file, current_file_hash, i))
  /\ pc' = IF outcome = "ok" THEN "attempt" ELSE "aborted"
  /\ UNCHANGED << parse_vars, commands, to_sync, remote, plan, exec_locals,
                  attempted_ever >>

\* Mutant: a check that fails counts as a confirmation.
record_already_exists_on_error(launch, search_ok) ==
  /\ enable_pre_add_check
  /\ get_timestamp_ms(launch) # None
  /\ launch.source_name # ""
  /\ LET response == list_records(remote,
                       << <<"time", "is", get_timestamp_ms(launch)[1]>> >>,
                       search_ok)
     IN ~response.ok \/ Len(response.items) >= 1

\* Mutant: a row confirms the record only when its mission is the record's.
record_already_exists_same_mission(launch, search_ok) ==
  /\ enable_pre_add_check
  /\ get_timestamp_ms(launch) # None
  /\ launch.source_name # ""
  /\ LET response == list_records(remote,
                       << <<"time", "is", get_timestamp_ms(launch)[1]>> >>,
                       search_ok)
     IN /\ response.ok
        /\ \E k \in 1..Len(response.items) :
             response.items[k].mission = launch.mission

\* cli.py 492-528: the optional existence check of record i.
record_already_exists(launch, search_ok) ==
  /\ enable_pre_add_check
  /\ get_timestamp_ms(launch) # None
  /\ launch.source_name # ""
  /\ LET response == list_records(remote,
                       << <<"time", "is", get_timestamp_ms(launch)[1]>> >>,
                       search_ok)
     IN response.ok /\ Len(response.items) >= 1

\* cli.py 493-527: what the run's log says of the check of record i: the
\* check is off; it is on but skipped with a warning (no timestamp or no
\* source); the query failed; it found a row; it found none.
pre_add_check_result(launch, search_ok) ==
  IF ~enable_pre_add_check THEN "off"
  ELSE IF get_timestamp_ms(launch) = None \/ launch.source_name = ""
  THEN "unchecked"
  ELSE IF ~search_ok THEN "error"
  ELSE IF Len(list_records(remote,
                << <<"time", "is", get_timestamp_ms(launch)[1]>> >>,
                TRUE).items) >= 1
  THEN "confirmed"
  ELSE "not_found"

\* Mutant: a create that fails ends the run.
ExecAttemptAbortOnFailure(search_ok, create_ok) ==
  /\ pc = "attempt"
  /\ LET launch  == launches_to_sync[i + 1]
         exists  == record_already_exists(launch, search_ok)
         created == ~exists /\ create_ok /\ Len(remote) < MaxRemote
         outcome == IF exists THEN "skipped"
                    ELSE IF created THEN "created" ELSE "failed"
     IN
     /\ remote' = IF created THEN Append(remote, add_launch_fields(launch))
                  ELSE remote
     /\ successfully_added_count' =
          IF created THEN successfully_added_count + 1
          ELSE successfully_added_count
     /\ skipped_due_to_pre_check' =
          IF exists THEN skipped_due_to_pre_check + 1
          ELSE skipped_due_to_pre_check
     /\ log' = Append(log, <<i, outcome, pre_add_check_result(launch, search_ok)>>)
  /\ attempted_ever' =
       attempted_ever \cup { <<to_sync_file, current_file_hash, i>> }
  /\ pc' = IF ~record_already_exists(launches_to_sync[i + 1], search_ok)
              /\ ~(create_ok /\ Len(remote) < MaxRemote)
           THEN "aborted" ELSE "post_write"
  /\ UNCHANGED << parse_vars, commands, to_sync, progress, plan, to_sync_file,
                  enable_pre_add_check, launches_to_sync, start_index, i,
                  interrupted_created >>

\* cli.py 492-542: the check and the create of record i.
ExecAttempt(search_ok, create_ok) ==
  /\ pc = "attempt"
  /\ LET launch  == launches_to_sync[i + 1]
         exists  == record_already_exists(launch, search_ok)
         created == ~exists /\ create_ok /\ Len(remote) < MaxRemote
         outcome == IF exists THEN "skipped"
                    ELSE IF created THEN "created" ELSE "failed"
     IN
     /\ remote' = IF created THEN Append(remote, add_launch_fields(launch))
                  ELSE remote
     /\ successfully_added_count' =
          IF created THEN successfully_added_count + 1
          ELSE successfully_added_count
     /\ skipped_due_to_pre_check' =
          IF exists THEN skipped_due_to_pre_check + 1
          ELSE skipped_due_to_pre_check
     /\ log' = Append(log, <<i, outcome, pre_add_check_result(launch, search_ok)>>)
  /\ attempted_ever' =
       attempted_ever \cup { <<to_sync_file, current_file_hash, i>> }
  /\ pc' = "post_write"
  /\ UNCHANGED << parse_vars, commands, to_sync, progress, plan, to_sync_file,
                  enable_pre_add_check, launches_to_sync, start_index, i,
                  interrupted_created >>

\* Mutant: the checkpoint after the attempt stores the number of records added.
ExecPostWriteAddedCount(outcome) ==
  /\ pc = "post_write"
  /\ progress' = write_progress(outcome,
                   ProgressJson(to_sync_file, current_file_hash,
                                successfully_added_count))
  /\ IF i + 1 < Len(launches_to_sync)
     THEN /\ i' = i + 1
          /\ pc' = "pre_write"
     ELSE /\ i' = i
          /\ pc' = "cleanup"
  /\ UNCHANGED << parse_vars, commands, to_sync, remote, plan, to_sync_file,
                  enable_pre_add_check, launches_to_sync, start_index,
                  successfully_added_count, skipped_due_to_pre_check, log,
                  interrupted_created, attempted_ever >>

\* cli.py 544-555: the checkpoint after the attempt; a failure is logged and
\* the loop goes on.
ExecPostWrite(outcome) ==
  /\ pc = "post_write"
  /\ progress' = write_progress(outcome,
                   ProgressJson(to_sync_file, current_file_hash, i + 1))
  /\ IF i + 1 < Len(launches_to_sync)
     THEN /\ i' = i + 1
          /\ pc' = "pre_write"
     ELSE /\ i' = i
          /\ pc' = "cleanup"
  /\ UNCHANGED << parse_vars, commands, to_sync, remote, plan, to_sync_file,
                  enable_pre_add_check, launches_to_sync, start_index,
                  successfully_added_count, skipped_due_to_pre_check, log,
                  interrupted_created, attempted_ever >>

\* Mutant: the stored next_index is not compared with the batch length.
is_fully_completed_any_index ==
  /\ progress.kind = "json"
  /\ progress.source_file = to_sync_file
  /\ progress.file_hash = current_file_hash

\* cli.py 564-582: after the loop.
is_fully_completed ==
  /\ progress.kind = "json"
  /\ progress.source_file = to_sync_file
  /\ progress.file_hash = current_file_hash
  /\ progress.next_index = Len(launches_to_sync)

\* Mutant: the progress file is kept when the run ends.
ExecCleanupKeepingProgress ==
  /\ pc = "cleanup"
  /\ progress' = progress
  /\ pc' = "done"
  /\ UNCHANGED << parse_vars, commands, to_sync, remote, plan, exec_locals,
                  attempted_ever >>

ExecCleanup ==
  /\ pc = "cleanup"
  /\ progress' = IF is_fully_completed THEN NoProgress ELSE progress
  /\ pc' = "done"
  /\ UNCHANGED << parse_vars, commands, to_sync, remote, plan, exec_locals,
                  attempted_ever >>

\* The process is killed between two steps; the files and the table stay.
Crash ==
  /\ pc \notin Stopped
  /\ pc' = "crashed"
  /\ UNCHANGED << parse_vars, commands, to_sync, progress, remote, plan, exec_locals,
                  attempted_ever >>

Next ==
  \/ \E parsed \in ProcessedInputs,
        out \in {None} \cup {Some(p) : p \in Paths}, ok \in BOOLEAN :
       Prepare(parsed, out, ok)
  \/ \E path \in Paths, chk \in BOOLEAN : ExecStart(path, chk)
  \/ \E o \in WriteOutcomes : ExecPreWrite(o)
  \/ \E s \in BOOLEAN, c \in BOOLEAN : ExecAttempt(s, c)
  \/ \E o \in WriteOutcomes : ExecPostWrite(o)
  \/ ExecCleanup
  \/ Crash

Spec == Init /\ [][Next]_vars

\* ================================================================== claims
BatchLen == Len(launches_to_sync)

\* The indices of the records this run has attempted, in order.
AttemptedIndices == [k \in 1..Len(log) |-> log[k][1]]

\* A step that starts execute_feishu_sync on a batch that is not empty.
ExecStartStep == commands' # commands /\ launches_to_sync' # <<>>

\* The progress file names the batch the starting run was given.
ProgressMatchesStartedBatch ==
  /\ progress.kind = "json"
  /\ progress.source_file = to_sync_file'
  /\ progress.file_hash = <<"sha256", launches_to_sync'>>

\* C1. Resume correctness: a run started with a progress file that names the
\* same source file and content hash begins at its next_index k, any other
\* run begins at 0; the run attempts the records from its start index upward,
\* one after the other and none below it, and a run that reaches the end of
\* its loop has attempted exactly the indices start..N-1.
C1_ResumeCorrectness ==
  [][ /\ ExecStartStep =>
           start_index' = IF ProgressMatchesStartedBatch
                          THEN progress.next_index ELSE 0
      /\ \A k \in 1..Len(AttemptedIndices') :
           AttemptedIndices'[k] = start_index' + k - 1
      /\ (pc' \in {"cleanup", "done"} /\ start_index' < BatchLen') =>
           Len(AttemptedIndices') = BatchLen' - start_index' ]_vars

\* A run resumed at k = 1 of a batch of 3 has finished after attempting
\* records 1 and 2 only.
C1_Witness ==
  /\ pc = "done"
  /\ BatchLen = 3
  /\ start_index = 1
  /\ AttemptedIndices = <<1, 2>>

\* C2. No record is skipped by a crash: whenever the progress file holds a
\* record, every index below its next_index has been attempted for the batch
\* (source file and hash) that the record names.
C2_NoRecordSkipped ==
  progress.kind = "json" =>
    \A j \in 0..(progress.next_index - 1) :
      <<progress.source_file, progress.file_hash, j>> \in attempted_ever

\* The run was killed with record 1 attempted and its post-write checkpoint
\* not yet written: the file still points at record 1.
C2_Witness ==
  /\ pc = "crashed"
  /\ AttemptedIndices = <<0, 1>>
  /\ progress.kind = "json"
  /\ progress.next_index = 1

RestartStep ==
  /\ pc = "crashed"
  /\ ExecStartStep
  /\ to_sync_file' = to_sync_file
  /\ launches_to_sync' = launches_to_sync

Outcomes == [k \in 1..Len(log) |-> log[k][2]]

\* C4. A failed create never aborts the batch: the step that attempts a
\* record never ends the run, and after a failed create the run writes the
\* post-write checkpoint and goes on to the next index (or to the end of the
\* loop after the last record).  In the scenario of 3 records from index 0
\* with only the second create failing, the finished run has passed all 3
\* indices with one failure, and the progress file is gone unless the last
\* checkpoint write failed.
C4_FailedCreateDoesNotAbort ==
  [][ /\ pc = "attempt" => pc' \in {"post_write", "crashed"}
      /\ (pc = "post_write" /\ log[Len(log)][2] = "failed"
            /\ pc' # "crashed") =>
           IF i + 1 < BatchLen THEN pc' = "pre_write" /\ i' = i + 1
           ELSE pc' = "cleanup"
      /\ (/\ pc' = "done"
          /\ BatchLen' = 3
          /\ Outcomes' = <<"created", "failed", "created">>) =>
           /\ i' + 1 = 3
           /\ successfully_added_count' = 2
           /\ \/ progress' = NoProgress
              \/ progress'.kind = "corrupt"
              \/ progress'.kind = "json" /\ progress'.next_index = 2 ]_vars

\* The scenario: 3 records, no prior progress, the second create failed, the
\* run is over and the progress file is deleted.
C4_Witness ==
  /\ pc = "done"
  /\ start_index = 0
  /\ Outcomes = <<"created", "failed", "created">>
  /\ progress = NoProgress

C6_DeletedIffComplete ==
  [][ (pc = "cleanup" /\ pc' = "done") =>
        IF progress.kind = "json" /\ progress.next_index = BatchLen
        THEN progress' = NoProgress
        ELSE progress' = progress ]_vars

\* The last post-write checkpoint was not persisted: the finished run leaves
\* the file with next_index = N - 1 in place.
C6_Witness ==
  /\ pc = "done"
  /\ Len(log) = BatchLen
  /\ BatchLen > 0
  /\ progress.kind = "json"
  /\ progress.next_index = BatchLen - 1

\* ------------------------------------------------- business keys (spec 3)
\* The business identity of an input record: timestamp_ms with None taken as
\* 0, the source, the trimmed and lower-cased mission.
BusinessKey(r) ==
  << IF get_timestamp_ms(r) = None THEN 0 ELSE get_timestamp_ms(r)[1],
     r.source_name,
     lower(strip(r.mission)) >>

\* The business identity of a row of the remote table.
RowBusinessKey(f) ==
  << IF f.time = None THEN 0 ELSE f.time[1], f.Source, lower(strip(f.mission)) >>

SeqRange(q) == { q[k] : k \in 1..Len(q) }

\* The sync-eligible records of the planner's last input.
EligibleInput == SeqRange(SelectSeq(plan.processed, is_valid_for_sync))

\* C7 as stated. When the planner's remote query fails, the planner exits
\* with an error and writes no to-sync file.
C7_QueryFailurePropagates ==
  plan.query_failed => plan.result = "exit1" /\ ~plan.write

\* C8 as stated. Whenever the query returned a snapshot, an eligible record is
\* in the write-set the planner wrote if and only if its business key is not
\* among the keys of the snapshot's rows.
C8_PlannedIffKeyAbsent ==
  (plan.queried /\ ~plan.query_failed) =>
    \A r \in EligibleInput :
      (plan.write /\ r \in SeqRange(plan.data))
        <=> BusinessKey(r) \notin { RowBusinessKey(f) : f \in SeqRange(plan.items) }

\* C9 as stated. The key the planner computes for an eligible input record is
\* its business key (timestamp None taken as 0, mission trimmed and
\* lower-cased), and no record without a timestamp is planned while the table
\* holds a row without a time of the same source and normalised mission.
C9_KeysNormalizedAlike ==
  (plan.queried /\ ~plan.query_failed) =>
    /\ \A r \in EligibleInput :
         /\ current_launch_tuple(r)[1] = Some(BusinessKey(r)[1])
         /\ current_launch_tuple(r)[2] = BusinessKey(r)[2]
         /\ current_launch_tuple(r)[3] = BusinessKey(r)[3]
    /\ plan.write =>
         \A r \in SeqRange(plan.data) :
           get_timestamp_ms(r) = None =>
             \A f \in SeqRange(remote) :
               f.time = None => RowBusinessKey(f) # BusinessKey(r)

\* C10 as stated. No two records of a write-set the planner wrote have the
\* same business key, and no run of the executor issues two creates for
\* records with the same business key.
C10_OneRecordPerKey ==
  /\ (plan.write /\ ~plan.query_failed) =>
       \A j, k \in 1..Len(plan.data) :
         j < k => BusinessKey(plan.data[j]) # BusinessKey(plan.data[k])
  /\ \A j, k \in 1..Len(log) :
       (j < k /\ log[j][2] \in {"created", "failed"}
              /\ log[k][2] \in {"created", "failed"}) =>
         BusinessKey(launches_to_sync[log[j][1] + 1])
           # BusinessKey(launches_to_sync[log[k][1] + 1])

\* ------------------------------------------------- the planner, more inputs
\* Records with a timestamp of zero and a negative timestamp.
RecZero == LaunchRecord(<<"z">>, TRUE, Some(0), "Unknown")
RecNeg  == LaunchRecord(<<"n">>, TRUE, Some(-3), "Failure")

RecordPool == { RecAb, RecZero, RecNeg, RecNone, RecUnk, RecNoKey }

\* Processed files over the pool: each record alone, and lists that mix
\* records with and without a timestamp in several orders.
PlannerInputs ==
  { <<>> }
  \cup { <<a>> : a \in RecordPool }
  \cup { <<RecAb, RecNeg>>, <<RecNeg, RecAb>>, <<RecNone, RecZero>>,
         <<RecZero, RecNone>>, <<RecUnk, RecZero>>, <<RecNoKey, RecNone>>,
         <<RecNone, RecNoKey>>, <<RecUnk, RecNoKey>>,
         <<RecNone, RecAb, RecNeg>>, <<RecAb, RecZero, RecNeg>>,
         <<RecNoKey, RecZero, RecUnk>> }

\* Remote tables left by earlier syncs.
PlannerSnapshots ==
  { <<>>,
    << add_launch_fields(RecNeg) >>,
    << add_launch_fields(RecNone) >> }

InitPlanner ==
  /\ commands = 0
  /\ to_sync = [p \in Paths |-> NoFile]
  /\ progress = NoProgress
  /\ remote \in PlannerSnapshots
  /\ plan = NoPlan
  /\ pc = "idle"
  /\ to_sync_file = "default"
  /\ enable_pre_add_check = FALSE
  /\ launches_to_sync = <<>>
  /\ start_index = 0
  /\ i = 0
  /\ successfully_added_count = 0
  /\ skipped_due_to_pre_check = 0
  /\ log = <<>>
  /\ interrupted_created = {}
  /\ attempted_ever = {}
  /\ NothingFetched

\* At most MaxPlannerRuns runs of the planner in one behaviour.
MaxPlannerRuns == 2

PlanRecords(processed_launches, output_to_sync_file, search_ok) ==
  /\ commands < MaxPlannerRuns
  /\ Prepare(processed_launches, output_to_sync_file, search_ok)

NextPlanner ==
  \E parsed \in PlannerInputs, out \in {None, Some("explicit")},
     ok \in BOOLEAN :
    PlanRecords(parsed, out, ok)

PlannerSpec == InitPlanner /\ [][NextPlanner]_vars

\* ------------------------------------------------------ claims on the planner
\* Sync-eligible as the spec words it: a timestamp that is not None (the key
\* present and holding a number, zero and negative included), or a status of
\* Scheduled or TBD.
SyncEligible(r) ==
  (r.ts_key /\ r.timestamp_ms # None) \/ r.status = "Scheduled" \/ r.status = "TBD"

\* C11. Exactly the sync-eligible records are considered: the planner goes on
\* to its query iff the input has an eligible record; no other record is ever
\* in the write-set; and a write-set written after a query that found no row
\* holds every eligible record of the input.
C11_ExactlyEligibleKept ==
  /\ (plan.result = "return" /\ plan.processed # <<>>) =>
       (plan.queried <=> \E r \in SeqRange(plan.processed) : SyncEligible(r))
  /\ plan.write =>
       \A r \in SeqRange(plan.data) :
         r \in SeqRange(plan.processed) /\ SyncEligible(r)
  /\ (plan.write /\ plan.queried /\ plan.items = <<>>) =>
       \A r \in SeqRange(plan.processed) :
         SyncEligible(r) => r \in SeqRange(plan.data)

C11_Witness ==
  /\ plan.write
  /\ plan.processed = <<RecNoKey, RecZero, RecUnk>>
  /\ plan.data = <<RecZero, RecNoKey>>

\* The concrete timestamps of the eligible records of the planner's input.
EligibleTimes ==
  { r.timestamp_ms[1] :
      r \in { e \in SeqRange(plan.processed) :
                SyncEligible(e) /\ e.ts_key /\ e.timestamp_ms # None } }

\* C12. The planner's query has the condition Source is <source of the batch>
\* first; it has a second condition, time isGreaterOrEqual m with m the least
\* concrete timestamp of the eligible records, exactly when some eligible
\* record has one; it has no other condition.
C12_QueryFilter ==
  plan.queried =>
    /\ Len(plan.filter) >= 1
    /\ plan.filter[1] = <<"Source", "is", plan.processed[1].source_name>>
    /\ IF EligibleTimes = {}
       THEN Len(plan.filter) = 1
       ELSE /\ Len(plan.filter) = 2
            /\ plan.filter[2][1] = "time"
            /\ plan.filter[2][2] = "isGreaterOrEqual"
            /\ plan.filter[2][3] \in EligibleTimes
            /\ \A x \in EligibleTimes : plan.filter[2][3] <= x

C12_Witness ==
  /\ plan.queried
  /\ plan.processed = <<RecAb, RecZero, RecNeg>>
  /\ plan.filter = << <<"Source", "is", NEXTSPACEFLIGHT>>,
                      <<"time", "isGreaterOrEqual", -3>> >>

\* C13. The write-set the planner writes is in ascending order of
\* timestamp_ms, and no record without a timestamp comes before a record
\* with one.
C13_WriteSetSorted ==
  plan.write =>
    \A j, k \in 1..Len(plan.data) :
      j < k =>
        LET a == get_timestamp_ms(plan.data[j])
            b == get_timestamp_ms(plan.data[k])
        IN /\ a = None => b = None
           /\ (a # None /\ b # None) => a[1] <= b[1]

C13_Witness ==
  /\ plan.write
  /\ plan.processed = <<RecNone, RecAb, RecNeg>>
  /\ plan.data = <<RecNeg, RecAb, RecNone>>

\* A step in which the planner runs again on the list of its previous run,
\* with the same output path, against the same remote table, its query
\* ending as before.
PlannerRerunStep ==
  /\ commands' = commands + 1
  /\ plan.result # "none" /\ plan'.result # "none"
  /\ plan'.processed = plan.processed
  /\ plan'.path = plan.path
  /\ plan'.query_failed = plan.query_failed
  /\ remote' = remote

FailedInRun ==
  { launches_to_sync[log[k][1] + 1] :
      k \in { j \in 1..Len(log) : log[j][2] = "failed" } }

\* C16 as stated. A create that fails adds no row to the remote table, and
\* the next planner run over a list that still holds the record, while no row
\* of the table has its business key, puts the record in the write-set again.
C16_FailedCreateRetried ==
  [][ /\ (pc = "attempt" /\ pc' = "post_write"
            /\ log'[Len(log')][2] = "failed") => remote' = remote
      /\ (pc = "done" /\ commands' = commands + 1 /\ plan'.result # "none") =>
           \A r \in FailedInRun :
             ( /\ r \in SeqRange(plan'.processed)
               /\ BusinessKey(r) \notin
                    { RowBusinessKey(f) : f \in SeqRange(remote) } )
             => (plan'.write /\ r \in SeqRange(plan'.data)) ]_vars

\* ------------------------------------------------ claims on the pre-add check
\* The rows of the remote table whose time is the timestamp of the record.
RowsAtTimeOf(launch) ==
  { k \in 1..Len(remote) :
      /\ get_timestamp_ms(launch) # None
      /\ remote[k].time = get_timestamp_ms(launch) }

\* C17. In the attempt of record i: with the check on, create is invoked
\* (the attempt ends created or failed) iff the check did not confirm that
\* the record exists, a check that failed or was not made included; a
\* confirmation means the table holds a row at the record's time, a check
\* that found nothing means it holds none; with the check off no query is
\* made and create is invoked.  The attempt is counted whatever its end, and
\* the step after it writes the checkpoint next_index = i + 1.
C17_PreAddCheck ==
  [][ /\ (pc = "attempt" /\ pc' = "post_write") =>
           LET e == log'[Len(log')]
               launch == launches_to_sync[i + 1]
           IN /\ Len(log') = Len(log) + 1
              /\ e[1] = i
              /\ e[2] = "skipped" <=> e[3] = "confirmed"
              /\ e[2] \in {"created", "failed", "skipped"}
              /\ e[3] = "confirmed" => RowsAtTimeOf(launch) # {}
              /\ e[3] = "not_found" => RowsAtTimeOf(launch) = {}
              /\ enable_pre_add_check => e[3] # "off"
              /\ ~enable_pre_add_check => e[3] = "off"
              /\ skipped_due_to_pre_check' + Cardinality(CreatedIn(log'))
                   + Cardinality({ k \in 1..Len(log') : log'[k][2] = "failed" })
                   = Len(log')
      /\ (pc = "post_write" /\ pc' # "crashed") =>
           \E o \in WriteOutcomes :
             progress' = write_progress(o,
                           ProgressJson(to_sync_file, current_file_hash, i + 1))
    ]_vars

\* A run with the check on has skipped a record the check confirmed and has
\* created a record whose check failed.
C17_Witness ==
  /\ pc = "done"
  /\ enable_pre_add_check
  /\ \E j, k \in 1..Len(log) :
       /\ log[j][2] = "skipped"
       /\ log[k][2] = "created" /\ log[k][3] = "error"

\* ================================================================ html_parser
\* An Optional[str] is None or Some(s), s a sequence of characters, so that
\* None and the empty string differ.
BORDER_COLOR == <<"b", "o", "r", "d", "e", "r", "-", "c", "o", "l", "o", "r">>

\* The first position at or after p that holds no whitespace (Len(s) + 1 when
\* there is none): what \s* consumes from p.
RECURSIVE SkipSpaces(_, _)
SkipSpaces(s, p) ==
  IF p <= Len(s) /\ IsSpace(s[p]) THEN SkipSpaces(s, p + 1) ELSE p

\* The first position at or after p that holds ";" (Len(s) + 1 when there is
\* none): where [^;]+ stops.
RECURSIVE EndOfValue(_, _)
EndOfValue(s, p) ==
  IF p <= Len(s) /\ s[p] # ";" THEN EndOfValue(s, p + 1) ELSE p

\* The regex border-color\s*:\s*([^;]+) with IGNORECASE matches at p: the name
\* in any letter case, whitespace, a colon, and at least one character other
\* than ";" (whitespace included, given back by \s* when nothing else is
\* there).
BorderColorMatchesAt(s, p) ==
  /\ p + Len(BORDER_COLOR) - 1 <= Len(s)
  /\ lower(SubSeq(s, p, p + Len(BORDER_COLOR) - 1)) = BORDER_COLOR
  /\ LET c == SkipSpaces(s, p + Len(BORDER_COLOR))
     IN /\ c <= Len(s)
        /\ s[c] = ":"
        /\ EndOfValue(s, c + 1) > c + 1

\* re.search(...).group(1).strip() at the leftmost match; None without match.
\* Group 1 is the run after the colon up to the next ";" less the whitespace
\* \s* took from its front; strip() makes both the same.
border_color_value(s) ==
  LET starts == { p \in 1..Len(s) : BorderColorMatchesAt(s, p) }
  IN IF starts = {} THEN None
     ELSE LET p == CHOOSE q \in starts : \A r \in starts : q <= r
              c == SkipSpaces(s, p + Len(BORDER_COLOR))
          IN Some(strip(SubSeq(s, c + 1, EndOfValue(s, c + 1) - 1)))

COLOR_SUCCESS == <<"#", "4", "5", "c", "f", "5", "d">>
COLOR_FAILURE == <<"#", "d", "a", "3", "4", "3", "2">>
COLOR_PARTIAL == <<"#", "f", "f", "9", "9", "0", "0">>

\* Mutant: the colour is compared without being lower-cased.
_parse_launch_status_from_style_case_sensitive(style_attribute) ==
  IF style_attribute = None \/ style_attribute = Some(<<>>) THEN "Unknown"
  ELSE LET match == border_color_value(style_attribute[1])
       IN IF match = None THEN "Unknown"
          ELSE LET color_value == match[1]
               IN CASE color_value = COLOR_SUCCESS -> "Success"
                    [] color_value = COLOR_FAILURE -> "Failure"
                    [] color_value = COLOR_PARTIAL -> "Partial Success"
                    [] OTHER -> "Unknown"

\* html_parser.py 172-191.
_parse_launch_status_from_style(style_attribute) ==
  IF style_attribute = None \/ style_attribute = Some(<<>>) THEN "Unknown"
  ELSE LET match == border_color_value(style_attribute[1])
       IN IF match = None THEN "Unknown"
          ELSE LET color_value == lower(match[1])
               IN CASE color_value = COLOR_SUCCESS -> "Success"
                    [] color_value = COLOR_FAILURE -> "Failure"
                    [] color_value = COLOR_PARTIAL -> "Partial Success"
                    [] OTHER -> "Unknown"

\* ------------------------------------------------------------- date and time
\* A date or time text is given by its lexical parts: words are sequences of
\* characters, numbers are the integers their digits spell, and a clock
\* lexeme HH:MM is [hh, mm, ok], ok = FALSE for text that is not two numbers
\* around a colon.  Timestamps are in minutes since the epoch (one unit is
\* 60000 ms): neither format has seconds, and the values must fit the
\* integers of the model checker.  (None, None) is NoDatetime.
MONTH_ABBR ==
  << <<"j", "a", "n">>,
     <<"f", "e", "b">>,
     <<"m", "a", "r">>,
     <<"a", "p", "r">>,
     <<"m", "a", "y">>,
     <<"j", "u", "n">>,
     <<"j", "u", "l">>,
     <<"a", "u", "g">>,
     <<"s", "e", "p">>,
     <<"o", "c", "t">>,
     <<"n", "o", "v">>,
     <<"d", "e", "c">> >>

DAY_ABBR ==
  { <<"m", "o", "n">>,
    <<"t", "u", "e">>,
    <<"w", "e", "d">>,
    <<"t", "h", "u">>,
    <<"f", "r", "i">>,
    <<"s", "a", "t">>,
    <<"s", "u", "n">> }

\* The number of the month a word names, 0 when it names none (strptime %b
\* and the month_map lookup are both exact on the three letters).
MonthNumber(word) ==
  IF \E k \in 1..12 : MONTH_ABBR[k] = lower(word)
  THEN CHOOSE k \in 1..12 : MONTH_ABBR[k] = lower(word)
  ELSE 0

IsLeap(y) == (y % 4 = 0 /\ y % 100 # 0) \/ y % 400 = 0

DaysInMonth(y, m) ==
  CASE m \in {4, 6, 9, 11} -> 30
    [] m = 2 -> IF IsLeap(y) THEN 29 ELSE 28
    [] OTHER -> 31

\* Days from 1970-01-01 to y-m-d in the proleptic Gregorian calendar.
DaysFromCivil(y, m, d) ==
  LET yy  == IF m <= 2 THEN y - 1 ELSE y
      era == yy \div 400
      yoe == yy - era * 400
      mp  == IF m > 2 THEN m - 3 ELSE m + 9
      doy == (153 * mp + 2) \div 5 + d - 1
      doe == yoe * 365 + yoe \div 4 - yoe \div 100 + doy
  IN era * 146097 + doe - 719468

NoDatetime == [ts |-> None, str |-> None]

\* Offsets from UTC, in minutes, of the zones the program names; Asia/Shanghai
\* is +08:00 in the years of the inputs (no daylight saving time there).
KnownZones == {"UTC", "Asia/Shanghai"}
UtcOffset(zone) == IF zone = "Asia/Shanghai" THEN 480 ELSE 0

\* datetime.strptime on "Y-m-d clock [AM|PM]": the wall-clock minute count
\* from the epoch, or the ValueError it raises.  %Y takes four digits, %d a
\* day of that month, %H 0..23, %I 1..12 with %p, %M 0..59.
strptime_ymd(year, month, day, clock, am_pm) ==
  LET hour_ok == IF am_pm = "" THEN clock.hh \in 0..23 ELSE clock.hh \in 1..12
      valid == /\ year \in 1000..9999
               /\ month \in 1..12
               /\ day \in 1..DaysInMonth(year, month)
               /\ clock.ok /\ hour_ok /\ clock.mm \in 0..59
      hour24 == CASE am_pm = "" -> clock.hh
                  [] am_pm = "AM" -> clock.hh % 12
                  [] OTHER -> (clock.hh % 12) + 12
  IN IF valid
     THEN [error |-> "", y |-> year, m |-> month, d |-> day,
           minutes |-> DaysFromCivil(year, month, day) * 1440
                         + hour24 * 60 + clock.mm]
     ELSE [error |-> "ValueError", y |-> 0, m |-> 0, d |-> 0, minutes |-> 0]

\* html_parser.py 24-50: the body of the try block, with the exception that
\* ends it ("" when none does).  ZoneInfo raises ZoneInfoNotFoundError for a
\* zone name it does not know.  str is the local time in the target zone with
\* the zone's name.
parse_and_convert_try(year, month, day, clock, am_pm, input_timezone_str, target_timezone_str) ==
  LET dt_naive == strptime_ymd(year, month, day, clock, am_pm)
      ts == dt_naive.minutes - UtcOffset(input_timezone_str)
  IN IF dt_naive.error # ""
     THEN [error |-> dt_naive.error, value |-> NoDatetime]
     ELSE IF input_timezone_str \notin KnownZones
             \/ target_timezone_str \notin KnownZones
     THEN [error |-> "ZoneInfoNotFoundError", value |-> NoDatetime]
     ELSE [error |-> "",
           value |-> [ts  |-> Some(ts),
                      str |-> Some(<<ts + UtcOffset(target_timezone_str),
                                     target_timezone_str>>)]]

\* Mutant: only the ValueError of strptime is caught.
parse_and_convert_datetime_value_error_only(year, month, day, clock, am_pm, input_timezone_str, target_timezone_str) ==
  LET r == parse_and_convert_try(year, month, day, clock, am_pm,
                                 input_timezone_str, target_timezone_str)
  IN IF r.error \in {"", "ValueError"}
     THEN [raised |-> FALSE, value |-> r.value]
     ELSE [raised |-> TRUE, value |-> NoDatetime]

\* html_parser.py 11-57: every exception of the body is caught and turned
\* into (None, None).
parse_and_convert_datetime(year, month, day, clock, am_pm, input_timezone_str, target_timezone_str) ==
  LET r == parse_and_convert_try(year, month, day, clock, am_pm,
                                 input_timezone_str, target_timezone_str)
  IN [raised |-> FALSE, value |-> r.value]

\* A character is an upper-case ASCII letter.
IsUpperLetter(c) == LowerChar(c) # c

\* datetime.now().year (html_parser.py 67) in the runs considered.
current_year == 2026

EmptyText == [kind |-> "empty"]

\* The text "WORD DD[ YYYY]" of a launch_date element.
RlDate(word, day, year) ==
  [kind |-> "rl_date", word |-> word, day |-> day, year |-> year]

\* The text "HH:MM[ WORD ...]" of a launch_time element.
RlTime(clock, words) == [kind |-> "rl_time", clock |-> clock, words |-> words]

\* html_parser.py 60-94.  The regex ([A-Z]{3,}) ?(\d{1,2})(?: (\d{4}))? needs
\* three or more upper-case letters at the start of the date text.
parse_datetime_rocketlaunchlive_dict(obj) ==
  IF obj.date = EmptyText \/ obj.time = EmptyText
  THEN [raised |-> FALSE, value |-> NoDatetime]
  ELSE
    LET word == obj.date.word
        date_match == /\ Len(word) >= 3
                      /\ \A k \in 1..Len(word) : IsUpperLetter(word[k])
                      /\ obj.date.day \in 0..99
        month_i == MonthNumber(SubSeq(word, 1, 3))
        year_i  == IF obj.date.year = None THEN current_year
                   ELSE obj.date.year[1]
        words == obj.time.words
        am_pm_extracted ==
          IF Len(words) >= 1 /\ lower(words[1]) = <<"a", "m">> THEN "AM"
          ELSE IF Len(words) >= 1 /\ lower(words[1]) = <<"p", "m">> THEN "PM"
          ELSE ""
    IN IF ~date_match THEN [raised |-> FALSE, value |-> NoDatetime]
       ELSE IF month_i = 0 THEN [raised |-> FALSE, value |-> NoDatetime]
       ELSE parse_and_convert_datetime(year_i, month_i, obj.date.day,
                                       obj.time.clock, am_pm_extracted,
                                       "UTC", "Asia/Shanghai")

\* The text "[Dow ]Mon DD, YYYY HH:MM[ ZONE]" of a localized span; dow and
\* zone are <<>> when the text has none.
NsfText(dow, mon, day, year, clock, zone) ==
  [kind |-> "nsf", dow |-> dow, mon |-> mon, day |-> day, year |-> year,
   clock |-> clock, zone |-> zone]

IsDigit(c) == c \in {"0", "1", "2", "3", "4", "5", "6", "7", "8", "9"}

\* The number of upper-case letters a word starts with.
RECURSIVE UpperPrefix(_)
UpperPrefix(w) ==
  IF w # <<>> /\ IsUpperLetter(Head(w)) THEN 1 + UpperPrefix(Tail(w)) ELSE 0

\* html_parser.py 144-145: the trailing zone word is removed when it is
\* "GMT+8" or matches [A-Z]{3,}(?:[+-]\d{1,2})?.
ZoneIsRemoved(zone) ==
  LET k == UpperPrefix(zone)
  IN \/ zone = <<"G", "M", "T", "+", "8">>
     \/ /\ k >= 3
        /\ \/ k = Len(zone)
           \/ /\ zone[k + 1] \in {"+", "-"}
              /\ Len(zone) - k - 1 \in {1, 2}
              /\ \A j \in (k + 2)..Len(zone) : IsDigit(zone[j])

\* html_parser.py 135-170.  "%a %b %d, %Y %H:%M" needs a day name, the
\* fallback "%b %d, %Y %H:%M" needs none; a zone word left in the text fails
\* both.  The time read is taken as Asia/Shanghai time.
_parse_datetime_nextspaceflight(datetime_str_gmt8) ==
  IF datetime_str_gmt8 = EmptyText THEN [raised |-> FALSE, value |-> NoDatetime]
  ELSE
    LET t == datetime_str_gmt8
        cleaned_ok == t.zone = <<>> \/ ZoneIsRemoved(t.zone)
        dow_ok == t.dow = <<>> \/ lower(t.dow) \in DAY_ABBR
        dt_naive == strptime_ymd(t.year, MonthNumber(t.mon), t.day, t.clock, "")
        ts == dt_naive.minutes - UtcOffset("Asia/Shanghai")
    IN IF ~cleaned_ok \/ ~dow_ok \/ dt_naive.error # ""
       THEN [raised |-> FALSE, value |-> NoDatetime]
       ELSE [raised |-> FALSE,
             value |-> [ts  |-> Some(ts),
                        str |-> Some(<<dt_naive.minutes, "Asia/Shanghai">>)]]

\* ============================================================ direct calls
\* The functions of html_parser applied to inputs drawn from the classes
\* their callers and tests feed them.
\* Declarations in front of the one looked at.
StyleBefore ==
  { <<>>,
    <<"c", "o", "l", "o", "r", ":", " ", "r", "e", "d", ";", " ">>,
    <<"b", "a", "c", "k", "g", "r", "o", "u", "n", "d", "-", "c", "o", "l", "o", "r", ":", " ", "#", "4", "5", "c", "f", "5", "d", ";">> }

\* Property names, and whether they spell border-color.
StyleNames ==
  { [text |-> <<"b", "o", "r", "d", "e", "r", "-", "c", "o", "l", "o", "r">>, border |-> TRUE],
    [text |-> <<"B", "O", "R", "D", "E", "R", "-", "C", "O", "L", "O", "R">>, border |-> TRUE],
    [text |-> <<"B", "o", "r", "d", "e", "r", "-", "C", "o", "l", "o", "r">>, border |-> TRUE],
    [text |-> <<"b", "a", "c", "k", "g", "r", "o", "u", "n", "d", "-", "c", "o", "l", "o", "r">>, border |-> FALSE],
    [text |-> <<"b", "o", "r", "d", "e", "r", "-", "w", "i", "d", "t", "h">>, border |-> FALSE] }

\* Property values, with the status the three-colour table of the reference
\* function gives them.
StyleValues ==
  { [text |-> <<"#", "4", "5", "c", "f", "5", "d">>, status |-> "Success"],
    [text |-> <<"#", "4", "5", "C", "F", "5", "D">>, status |-> "Success"],
    [text |-> <<"#", "d", "a", "3", "4", "3", "2">>, status |-> "Failure"],
    [text |-> <<"#", "D", "a", "3", "4", "3", "2">>, status |-> "Failure"],
    [text |-> <<"#", "f", "f", "9", "9", "0", "0">>, status |-> "Partial Success"],
    [text |-> <<"#", "F", "F", "9", "9", "0", "0">>, status |-> "Partial Success"],
    [text |-> <<"r", "g", "b", "a", "(", "2", "5", "5", ",", "2", "5", "5", ",", "2", "5", "5", ",", "0", ")">>, status |-> "Unknown"],
    [text |-> <<"r", "e", "d">>, status |-> "Unknown"],
    [text |-> <<"#", "4", "5", "c", "f", "5">>, status |-> "Unknown"],
    [text |-> <<>>, status |-> "Unknown"] }

\* Whitespace around the colon and in front of the semicolon.
StyleSpace ==
  { <<>>,
    <<" ">>,
    <<"\t", " ">> }

\* What follows the value: nothing, a semicolon, or a semicolon and another
\* declaration.
StyleAfter ==
  { [semicolon |-> FALSE, text |-> <<>>],
    [semicolon |-> TRUE, text |-> <<>>],
    [semicolon |-> TRUE, text |-> <<" ", "c", "o", "l", "o", "r", ":", " ", "b", "l", "u", "e", ";">>] }

\* The style attributes of a card: absent, empty, or one declaration in its
\* surroundings.
StyleCases ==
  { [kind |-> "none"], [kind |-> "empty"] }
  \cup { [kind |-> "declaration", before |-> b, name |-> n, ws1 |-> w1,
          ws2 |-> w2, value |-> v, ws3 |-> w3, after |-> a] :
           b \in StyleBefore, n \in StyleNames, w1 \in StyleSpace,
           w2 \in StyleSpace, v \in StyleValues, w3 \in StyleSpace,
           a \in StyleAfter }

\* card.get('style') for a style case: None, "" or the text of the case.
StyleAttribute(c) ==
  CASE c.kind = "none" -> None
    [] c.kind = "empty" -> Some(<<>>)
    [] OTHER -> Some(c.before \o c.name.text \o c.ws1 \o <<":">> \o c.ws2
                     \o c.value.text \o c.ws3
                     \o (IF c.after.semicolon THEN <<";">> ELSE <<>>)
                     \o c.after.text)

\* Clock lexemes: a time of day, an hour and a minute out of range, and text
\* that is no HH:MM.
Clocks ==
  { [hh |-> 0,  mm |-> 0,  ok |-> TRUE],
    [hh |-> 8,  mm |-> 30, ok |-> TRUE],
    [hh |-> 25, mm |-> 0,  ok |-> TRUE],
    [hh |-> 8,  mm |-> 61, ok |-> TRUE],
    [hh |-> 0,  mm |-> 0,  ok |-> FALSE] }

\* Zone names: the two the program passes and one the zone database lacks.
ZoneNames == {"UTC", "Asia/Shanghai", "Mars/Olympus"}

\* Arguments of parse_and_convert_datetime.
ConvertArgs ==
  { [year |-> y, month |-> m, day |-> d, clock |-> c, am_pm |-> p,
     input_timezone_str |-> zi, target_timezone_str |-> zt] :
       y \in {1970, 2024, 2025}, m \in {0, 1, 2, 13}, d \in {0, 1, 29, 30},
       c \in Clocks, p \in {"", "AM", "PM"},
       zi \in ZoneNames, zt \in ZoneNames }

\* Texts of the launch_date and launch_time elements of rocketlaunch.live.
RlDates ==
  { EmptyText,
    RlDate(<<"J", "A", "N">>, 1, Some(1970)),
    RlDate(<<"M", "A", "Y">>, 10, None),
    RlDate(<<"F", "E", "B">>, 30, Some(2025)),
    RlDate(<<"F", "E", "B">>, 29, Some(2024)),
    RlDate(<<"S", "E", "P", "T">>, 5, Some(2025)),
    RlDate(<<"X", "Y", "Z">>, 5, Some(2025)),
    RlDate(<<"m", "a", "y">>, 10, Some(2025)),
    RlDate(<<"N", "E", "T">>, 0, None) }

RlTimes ==
  { EmptyText }
  \cup { RlTime(c, w) :
           c \in Clocks,
           w \in { <<>>, << <<"A", "M">> >>, << <<"p", "m">> >>,
                   << <<"P", "M">>, <<"E", "D", "T">> >>,
                   << <<"U", "T", "C">> >> } }

RlObjects == { [date |-> d, time |-> t] : d \in RlDates, t \in RlTimes }

\* Texts of the localized span of nextspaceflight.com.
NsfTexts ==
  { EmptyText }
  \cup { NsfText(dow, mon, day, 2025, c, zone) :
           dow \in { <<>>, <<"S", "a", "t">>, <<"S", "o", "l">> },
           mon \in { <<"M", "a", "y">>, <<"F", "e", "b">>, <<"M", "a", "i">> },
           day \in {10, 30, 0},
           c \in Clocks,
           zone \in { <<>>, <<"G", "M", "T", "+", "8">>, <<"U", "T", "C">>,
                      <<"g", "m", "t">> } }
  \cup { NsfText(<<"T", "h", "u">>, <<"J", "a", "n">>, 1, 1970,
                 [hh |-> 8, mm |-> 0, ok |-> TRUE], <<>>),
         NsfText(<<>>, <<"D", "e", "c">>, 31, 1969,
                 [hh |-> 8, mm |-> 0, ok |-> TRUE], <<"C", "S", "T">>) }

\* A function of html_parser is called and its result kept; the calls are
\* independent of each other, so a behaviour makes one.
Called(fn, arg, result) ==
  /\ ~parser_call.called
  /\ parser_call' = [called |-> TRUE, fn |-> fn, arg |-> arg,
                     result |-> result]
  /\ UNCHANGED << sync_vars, fetch_vars, search >>

CallStatusFromStyle(c) ==
  Called("_parse_launch_status_from_style", c,
         _parse_launch_status_from_style(StyleAttribute(c)))

CallConvert(a) ==
  Called("parse_and_convert_datetime", a,
         parse_and_convert_datetime(a.year, a.month, a.day, a.clock, a.am_pm,
                                    a.input_timezone_str,
                                    a.target_timezone_str))

CallRocketlaunchlive(obj) ==
  Called("parse_datetime_rocketlaunchlive_dict", obj,
         parse_datetime_rocketlaunchlive_dict(obj))

CallNextspaceflight(text) ==
  Called("_parse_datetime_nextspaceflight", text,
         _parse_datetime_nextspaceflight(text))

NextParser ==
  \/ \E c \in StyleCases : CallStatusFromStyle(c)
  \/ \E a \in ConvertArgs : CallConvert(a)
  \/ \E obj \in RlObjects : CallRocketlaunchlive(obj)
  \/ \E text \in NsfTexts : CallNextspaceflight(text)

ParserSpec == Init /\ [][NextParser]_vars

\* C18: _parse_launch_status_from_style is the reference function: for a
\* border-color declaration in any letter case, with any whitespace around
\* the colon and in front of the semicolon and any other declarations around
\* it, it returns the status the three-colour table gives the trimmed,
\* lower-cased value; for None, the empty string, another property, and a
\* value outside the table it returns Unknown.
C18_StatusFromStyle ==
  (parser_call.called /\ parser_call.fn = "_parse_launch_status_from_style")
    => LET c == parser_call.arg
       IN parser_call.result =
            IF c.kind = "declaration" /\ c.name.border THEN c.value.status
            ELSE "Unknown"

\* An upper-case colour between tabs, spaces and other declarations was
\* resolved to Success.
C18_Witness ==
  /\ parser_call.called
  /\ parser_call.fn = "_parse_launch_status_from_style"
  /\ parser_call.arg.kind = "declaration"
  /\ parser_call.arg.name.text # BORDER_COLOR
  /\ parser_call.arg.value.text = <<"#", "4", "5", "C", "F", "5", "D">>
  /\ parser_call.arg.ws1 = <<"\t", " ">>
  /\ parser_call.arg.before # <<>>
  /\ parser_call.arg.after.text # <<>>
  /\ parser_call.result = "Success"

\* A result of a normalizer: (timestamp, string) or (None, None).
IsDatetimeResult(v) ==
  \/ v = NoDatetime
  \/ (v.ts # None /\ v.ts[1] \in Int /\ v.str # None)

\* C20: the datetime normalizers never raise to their caller: for empty
\* text, an unrecognized month, an invalid day of the month, a malformed time
\* and an unknown zone name, each of the three returns a (timestamp, string)
\* pair or (None, None).
C20_NormalizerNeverRaises ==
  (parser_call.called /\ parser_call.fn # "_parse_launch_status_from_style")
    => /\ ~parser_call.result.raised
       /\ IsDatetimeResult(parser_call.result.value)

\* parse_and_convert_datetime was given a good date and time and a zone name
\* the zone database lacks, and returned (None, None).
C20_Witness ==
  /\ parser_call.called
  /\ parser_call.fn = "parse_and_convert_datetime"
  /\ parser_call.arg.year = 2025 /\ parser_call.arg.month = 2
  /\ parser_call.arg.day = 1 /\ parser_call.arg.clock.hh = 8
  /\ parser_call.arg.clock.mm = 30 /\ parser_call.arg.am_pm = ""
  /\ parser_call.arg.input_timezone_str = "Mars/Olympus"
  /\ parser_call.result.value = NoDatetime
  /\ ~parser_call.result.raised

\* ==================================================================== fetch
ROCKETLAUNCH_LIVE == "rocketlaunch.live"

UNKNOWN == <<"U", "n", "k", "n", "o", "w", "n">>

\* The div mdl-card__supporting-text of a card: whether it has a <br>, its
\* text outside the datetime span and in front of the <br>, and the text
\* nodes that are siblings after the <br>, in order.
SupportingText(text, br, after_br) ==
  [text |-> text, br |-> br, after_br |-> after_br]

\* A launch card of nextspaceflight.com: the text of its h5.header-style, the
\* text of its localized span, its style attribute and its supporting-text
\* block; None for an element or attribute the card lacks.
NsfCard(header, span, style, supporting) ==
  [header |-> header, span |-> span, style |-> style,
   supporting |-> supporting]

\* ', '.join(nodes).
RECURSIVE JoinComma(_)
JoinComma(nodes) ==
  IF nodes = <<>> THEN <<>>
  ELSE IF Len(nodes) = 1 THEN nodes[1]
  ELSE nodes[1] \o <<",", " ">> \o JoinComma(Tail(nodes))

\* [node.strip() for node in ... if node.strip()].
RECURSIVE StrippedNodes(_)
StrippedNodes(nodes) ==
  IF nodes = <<>> THEN <<>>
  ELSE (IF strip(nodes[1]) # <<>> THEN << strip(nodes[1]) >> ELSE <<>>)
       \o StrippedNodes(Tail(nodes))

\* html_parser.py 213-220: the text after the <br>, or "Unknown"; the block's
\* own text is not looked at.
pad_location_combined(supporting_text_div) ==
  IF supporting_text_div = None THEN UNKNOWN
  ELSE IF supporting_text_div[1].br
  THEN LET content_after_br == StrippedNodes(supporting_text_div[1].after_br)
       IN IF content_after_br # <<>> THEN JoinComma(content_after_br)
          ELSE UNKNOWN
  ELSE UNKNOWN

\* A launch entry of rocketlaunch.live: the text of its h4, whether it has a
\* launch_datetime div, and the texts of the launch_date and launch_time
\* elements in it; None for an element the entry lacks.
RlEntry(h4, datetime_div, launch_date, launch_time) ==
  [h4 |-> h4, datetime_div |-> datetime_div, launch_date |-> launch_date,
   launch_time |-> launch_time]

\* The first position of s that holds "|", 0 when none does.
BarIndex(s) ==
  IF \E k \in 1..Len(s) : s[k] = "|"
  THEN CHOOSE k \in 1..Len(s) : s[k] = "|" /\ \A j \in 1..(k - 1) : s[j] # "|"
  ELSE 0

\* html_parser.py 200-239, for one card.  The provider and the description,
\* which no later stage reads, are left out.
nextspaceflight_record(card, source_name) ==
  LET vehicle_mission_str ==
        IF card.header # None THEN card.header[1]
        ELSE <<"U", "n", "k", "n", "o", "w", "n", " ", "|", " ",
               "U", "n", "k", "n", "o", "w", "n">>
      bar == BarIndex(vehicle_mission_str)
      vehicle == IF bar = 0 THEN strip(vehicle_mission_str)
                 ELSE strip(SubSeq(vehicle_mission_str, 1, bar - 1))
      mission == IF bar = 0 THEN <<"N", "/", "A">>
                 ELSE strip(SubSeq(vehicle_mission_str, bar + 1,
                                   Len(vehicle_mission_str)))
      datetime_str_gmt8 == IF card.span # None THEN card.span[1] ELSE EmptyText
      parsed == _parse_datetime_nextspaceflight(datetime_str_gmt8).value
  IN [mission |-> mission, vehicle |-> vehicle,
      pad_location |-> pad_location_combined(card.supporting),
      ts_key |-> TRUE,
      timestamp_ms |-> parsed.ts, datetime_str |-> parsed.str,
      status |-> _parse_launch_status_from_style(StyleAttribute(card.style)),
      source_name |-> source_name]

\* html_parser.py 193-240: no step of the loop can raise.
parse_launches_nextspaceflight(html_data_cards, source_name) ==
  [raised |-> FALSE,
   launches |-> [k \in 1..Len(html_data_cards) |->
                   nextspaceflight_record(html_data_cards[k], source_name)]]

\* html_parser.py 105-107: find() returns None for a missing child, and
\* .get_text on None raises AttributeError.
rocketlaunchlive_entry_raises(entry) ==
  entry.datetime_div /\ (entry.launch_date = None \/ entry.launch_time = None)

\* html_parser.py 97-133: the exception of one entry leaves the function, so
\* no list is returned.  The vehicle, the pad and the location, which fetch_data
\* copies and no later stage reads, are left out.
parse_launches_rocketlaunchlive(entries) ==
  IF \E k \in 1..Len(entries) : rocketlaunchlive_entry_raises(entries[k])
  THEN [raised |-> TRUE, launches |-> <<>>]
  ELSE [raised |-> FALSE,
        launches |-> [k \in 1..Len(entries) |->
           [date |-> IF entries[k].datetime_div
                     THEN entries[k].launch_date[1] ELSE EmptyText,
            time |-> IF entries[k].datetime_div
                     THEN entries[k].launch_time[1] ELSE EmptyText,
            mission |-> IF entries[k].h4 # None THEN entries[k].h4[1]
                        ELSE <<>>]]]

\* cli.py 65-112, the function of this name that fetch_data calls: the same
\* steps as the one of html_parser, all under one handler, with the result
\* None or the timestamp in seconds.
cli_parse_datetime_rocketlaunchlive_dict(obj) ==
  LET r == parse_datetime_rocketlaunchlive_dict(obj).value
  IN IF r.ts = None THEN None ELSE Some(r.ts[1] * 60)

\* cli.py 254, `timestamp or 0`: None and 0 are falsy and give 0.  The value
\* is the JSON value written: None for null, Some(n) for a number.
timestamp_or_0(timestamp) ==
  IF timestamp = None \/ timestamp = Some(0) THEN Some(0)
  ELSE Some(timestamp[1])

\* cli.py 246-256: the record of one rocketlaunch.live launch; it has no
\* key timestamp_ms.
rocketlaunchlive_record(launch_data) ==
  [mission |-> launch_data.mission, ts_key |-> FALSE, timestamp_ms |-> None,
   timestamp |-> timestamp_or_0(
                   cli_parse_datetime_rocketlaunchlive_dict(launch_data)),
   status |-> "Unknown", source_name |-> ROCKETLAUNCH_LIVE]

\* cli.py 222-282 for the page downloaded: an empty or missing download and
\* an exception of the parser end in Exit(1) with no file written; otherwise
\* the records, none included, are written.
fetch_data(page) ==
  IF page = NoPage THEN [result |-> "exit1", write |-> FALSE, data |-> <<>>]
  ELSE IF page.source = ROCKETLAUNCH_LIVE
  THEN LET raw_parsed_launches == parse_launches_rocketlaunchlive(page.cards)
       IN IF raw_parsed_launches.raised
          THEN [result |-> "exit1", write |-> FALSE, data |-> <<>>]
          ELSE [result |-> "return", write |-> TRUE,
                data |-> [k \in 1..Len(raw_parsed_launches.launches) |->
                   rocketlaunchlive_record(raw_parsed_launches.launches[k])]]
  ELSE LET parsed == parse_launches_nextspaceflight(page.cards, page.source)
       IN [result |-> "return", write |-> TRUE, data |-> parsed.launches]

\* Header texts of the cards fetched: "vehicle | mission", and one without
\* the bar.
HEADER_AB == <<"F", "9", " ", "|", " ", "a", "b">>
HEADER_NOBAR == <<"A", "b">>

\* The style attributes of the cards fetched: absent, a colour of the table
\* and a colour outside it.
CardStyles ==
  { [kind |-> "none"] }
  \cup { [kind |-> "declaration", before |-> <<>>,
          name |-> [text |-> BORDER_COLOR, border |-> TRUE],
          ws1 |-> <<>>, ws2 |-> <<" ">>, value |-> v, ws3 |-> <<>>,
          after |-> [semicolon |-> TRUE, text |-> <<>>]] :
           v \in { w \in StyleValues :
                     w.text \in { COLOR_SUCCESS, <<"r", "e", "d">> } } }

OClock == [hh |-> 8, mm |-> 0, ok |-> TRUE]
Midnight == [hh |-> 0, mm |-> 0, ok |-> TRUE]

\* "Wed Dec 31, 1969 08:00" in Asia/Shanghai and "DEC 31 1969" in UTC: one
\* day before the epoch.
PRE_1970_SPAN ==
  NsfText(<<"W", "e", "d">>, <<"D", "e", "c">>, 31, 1969, OClock, <<>>)

PRE_1970_DATE == RlDate(<<"D", "E", "C">>, 31, Some(1969))

\* The span texts of the cards fetched: none, empty, the epoch (08:00 in
\* Asia/Shanghai on 1970-01-01), a day in 2025, a day no month has, and the
\* day before the epoch.
CardSpans ==
  { None, Some(EmptyText),
    Some(NsfText(<<"T", "h", "u">>, <<"J", "a", "n">>, 1, 1970, OClock, <<>>)),
    Some(NsfText(<<"S", "a", "t">>, <<"M", "a", "y">>, 10, 2025, OClock,
                 <<"G", "M", "T", "+", "8">>)),
    Some(NsfText(<<>>, <<"F", "e", "b">>, 30, 2025, OClock, <<>>)),
    Some(PRE_1970_SPAN) }

CardHeaders ==
  { None, Some(HEADER_AB), Some(HEADER_NOBAR) }

PAD_TEXT == <<"L", "C", "-", "3", "9", "A">>
SITE_TEXT == <<"K", "S", "C">>

\* Supporting-text blocks: none; a <br> followed by one text node, by two,
\* by whitespace only and by nothing; and no <br>, with and without text of
\* the block's own.
SupportingBlocks ==
  { None,
    Some(SupportingText(<<>>, TRUE, << PAD_TEXT >>)),
    Some(SupportingText(<<>>, TRUE, << <<" ">> \o PAD_TEXT, <<" ">>, SITE_TEXT >>)),
    Some(SupportingText(SITE_TEXT, TRUE, << <<" ">> >>)),
    Some(SupportingText(<<>>, TRUE, <<>>)),
    Some(SupportingText(PAD_TEXT, FALSE, <<>>)),
    Some(SupportingText(<<>>, FALSE, <<>>)) }

DefaultSupporting == Some(SupportingText(<<>>, TRUE, << PAD_TEXT >>))

NsfCards ==
  { NsfCard(h, sp, st, DefaultSupporting) :
      h \in CardHeaders, sp \in CardSpans, st \in CardStyles }
  \cup { NsfCard(Some(HEADER_AB), Some(PRE_1970_SPAN), [kind |-> "none"], b) :
           b \in SupportingBlocks }

\* The entries of rocketlaunch.live fetched: with and without the h4, the
\* launch_datetime div and its two children; the epoch, a day of this year,
\* a day no month has, the day before the epoch and an empty text as the
\* date.
RlEntries ==
  { RlEntry(h, FALSE, None, None) : h \in {None, Some(<<"a", "b">>)} }
  \cup { RlEntry(Some(<<"a", "b">>), TRUE, d, t) :
           d \in { None, Some(EmptyText),
                   Some(RlDate(<<"J", "A", "N">>, 1, Some(1970))),
                   Some(RlDate(<<"M", "A", "Y">>, 10, None)),
                   Some(RlDate(<<"F", "E", "B">>, 30, Some(2025))),
                   Some(PRE_1970_DATE) },
           t \in { None, Some(EmptyText), Some(RlTime(Midnight, <<>>)),
                   Some(RlTime(OClock, << <<"P", "M">>, <<"E", "D", "T">> >>)) } }

\* The pages downloaded: no card, one card, and two cards of which one is a
\* whole card with a date.
GoodNsfCard ==
  NsfCard(Some(HEADER_AB),
          Some(NsfText(<<"S", "a", "t">>, <<"M", "a", "y">>, 10, 2025, OClock,
                       <<"G", "M", "T", "+", "8">>)),
          CHOOSE st \in CardStyles :
            st.kind = "declaration" /\ st.value.text = COLOR_SUCCESS,
          DefaultSupporting)

GoodRlEntry ==
  RlEntry(Some(<<"a", "b">>), TRUE,
          Some(RlDate(<<"M", "A", "Y">>, 10, None)),
          Some(RlTime(OClock, << <<"P", "M">>, <<"E", "D", "T">> >>)))

Pages ==
  { [source |-> NEXTSPACEFLIGHT, cards |-> c] :
      c \in { <<>> } \cup { <<a>> : a \in NsfCards }
              \cup { <<a, GoodNsfCard>> : a \in NsfCards }
              \cup { <<GoodNsfCard, a>> : a \in NsfCards } }
  \cup { [source |-> ROCKETLAUNCH_LIVE, cards |-> c] :
      c \in { <<>> } \cup { <<a>> : a \in RlEntries }
              \cup { <<a, GoodRlEntry>> : a \in RlEntries }
              \cup { <<GoodRlEntry, a>> : a \in RlEntries } }

\* A processed file of an earlier run that the fetch finds in place.
EarlierProcessed == { NoFile, JsonFile(<<RecNone, RecZero>>) }

InitPipeline ==
  /\ commands = 0
  /\ to_sync = [p \in Paths |-> NoFile]
  /\ progress = NoProgress
  /\ remote = <<>>
  /\ plan = NoPlan
  /\ pc = "idle"
  /\ to_sync_file = "default"
  /\ enable_pre_add_check = FALSE
  /\ launches_to_sync = <<>>
  /\ start_index = 0
  /\ i = 0
  /\ successfully_added_count = 0
  /\ skipped_due_to_pre_check = 0
  /\ log = <<>>
  /\ interrupted_created = {}
  /\ attempted_ever = {}
  /\ html_data \in Pages \cup {NoPage}
  /\ processed_file \in EarlierProcessed
  /\ fetch_exit = "none"
  /\ parser_call = NoCall
  /\ search = NoSearch

\* The commands of one pass: fetch, plan, execute.
MaxPipelineCommands == 3

\* The command fetch-data, whole.
FetchData ==
  /\ pc \in Stopped
  /\ commands < MaxPipelineCommands
  /\ commands' = commands + 1
  /\ LET r == fetch_data(html_data)
     IN /\ fetch_exit' = r.result
        /\ processed_file' = IF r.write THEN JsonFile(r.data)
                             ELSE processed_file
  /\ plan' = NoPlan
  /\ NoExecutor
  /\ UNCHANGED << html_data, call_vars, to_sync, progress, remote,
                  attempted_ever >>

\* The command prepare-feishu-sync on the processed file; cli.py 291-293
\* exits when the file is missing.
PlanFetched(search_ok) ==
  /\ commands < MaxPipelineCommands
  /\ IF processed_file.exists
     THEN Prepare(processed_file.data, None, search_ok)
     ELSE /\ pc \in Stopped
          /\ commands' = commands + 1
          /\ plan' = [NoPlan EXCEPT !.result = "exit1"]
          /\ NoExecutor
          /\ UNCHANGED << parse_vars, to_sync, progress, remote,
                          attempted_ever >>

\* The command execute-feishu-sync on the default to-sync file.
ExecFetched(pre_add_check) ==
  /\ commands < MaxPipelineCommands
  /\ ExecStart("default", pre_add_check)

NextPipeline ==
  \/ FetchData
  \/ \E ok \in BOOLEAN : PlanFetched(ok)
  \/ \E chk \in BOOLEAN : ExecFetched(chk)
  \/ ExecPreWrite("ok")
  \/ \E s \in BOOLEAN, c \in BOOLEAN : ExecAttempt(s, c)
  \/ ExecPostWrite("ok")
  \/ ExecCleanup

PipelineSpec == InitPipeline /\ [][NextPipeline]_vars

\* The timestamp a processed record holds, as the JSON value of its key:
\* timestamp for rocketlaunch.live, timestamp_ms for nextspaceflight.com.
PersistedTimestamp(r) ==
  IF r.source_name = ROCKETLAUNCH_LIVE THEN r.timestamp ELSE r.timestamp_ms

\* The timestamp the normalizer of the source gives card k of the page.
CardTimestamp(page, k) ==
  IF page.source = ROCKETLAUNCH_LIVE
  THEN cli_parse_datetime_rocketlaunchlive_dict(
         parse_launches_rocketlaunchlive(page.cards).launches[k])
  ELSE _parse_datetime_nextspaceflight(
         IF page.cards[k].span # None THEN page.cards[k].span[1]
         ELSE EmptyText).value.ts

\* None is None and 0 is 0 on both sides.
SameNoneAndZero(a, b) ==
  /\ (a = None) = (b = None)
  /\ (a = Some(0)) = (b = Some(0))

\* C15: None and 0 stay apart at every stage, for both sources: a record
\* fetch_data persists holds None exactly when the card's timestamp was not
\* parsed and 0 exactly when it is 0; the planner keeps a record whose
\* timestamp_ms is 0 and takes a time bound from the timestamps that are not
\* None only; the fields sent to create have no time for None and time 0
\* for 0.
C15_NoneAndZeroApart ==
  [][ /\ (fetch_exit' = "return" /\ fetch_exit = "none") =>
           \A k \in 1..Len(html_data.cards) :
             SameNoneAndZero(CardTimestamp(html_data, k),
                             PersistedTimestamp(processed_file'.data[k]))
      /\ (plan' # plan /\ plan'.result = "return" /\ plan'.processed # <<>>) =>
           LET P == plan'.processed
               elig == { k \in 1..Len(P) :
                           \/ get_timestamp_ms(P[k]) # None
                           \/ P[k].status \in {"Scheduled", "TBD"} }
               times == { get_timestamp_ms(P[k])[1] :
                            k \in { j \in elig : get_timestamp_ms(P[j]) # None } }
           IN /\ plan'.queried = (elig # {})
              /\ plan'.queried =>
                   /\ (times = {}) = (Len(plan'.filter) = 1)
                   /\ times # {} =>
                        /\ plan'.filter[2][1] = "time"
                        /\ plan'.filter[2][3] \in times
                        /\ \A t \in times : plan'.filter[2][3] <= t
      /\ remote' # remote =>
           /\ Len(remote') = Len(remote) + 1
           /\ remote'[Len(remote')].time
                = get_timestamp_ms(launches_to_sync[i + 1])
    ]_vars

\* The span of a card holds no date that can be read.
SpanUnparsable(sp) ==
  \/ sp = None
  \/ sp[1] = EmptyText
  \/ sp[1].day > DaysInMonth(sp[1].year, MonthNumber(sp[1].mon))

\* C19: a parse failure on one card never aborts the batch: for either
\* source, the fetch of a page returns one record per card, in order; a card
\* of nextspaceflight.com without a header, a readable date or a style has
\* Unknown, None and "Unknown" in their places, and an entry of
\* rocketlaunch.live without an h4 or a date has an empty mission and no
\* parsed time.
C19_BadCardKeepsBatch ==
  (fetch_exit # "none" /\ html_data # NoPage) =>
    /\ fetch_exit = "return"
    /\ processed_file.exists
    /\ Len(processed_file.data) = Len(html_data.cards)
    /\ \A k \in 1..Len(html_data.cards) :
         LET card == html_data.cards[k]
             r == processed_file.data[k]
         IN IF html_data.source = NEXTSPACEFLIGHT
            THEN /\ card.header = None =>
                      r.vehicle = UNKNOWN /\ r.mission = UNKNOWN
                 /\ SpanUnparsable(card.span) =>
                      r.timestamp_ms = None /\ r.datetime_str = None
                 /\ ~SpanUnparsable(card.span) => r.timestamp_ms # None
                 /\ card.style.kind = "none" => r.status = "Unknown"
                 /\ card.header = Some(HEADER_AB) => r.mission = <<"a", "b">>
            ELSE /\ card.h4 = None => r.mission = <<>>
                 /\ card.h4 # None => r.mission = card.h4[1]
                 /\ r.status = "Unknown"

\* The cards of the page that carry the day before the epoch.
Pre1970Cards ==
  { k \in 1..Len(html_data.cards) :
      IF html_data.source = ROCKETLAUNCH_LIVE
      THEN /\ html_data.cards[k].datetime_div
           /\ html_data.cards[k].launch_date = Some(PRE_1970_DATE)
           /\ html_data.cards[k].launch_time = Some(RlTime(Midnight, <<>>))
      ELSE html_data.cards[k].span = Some(PRE_1970_SPAN) }

\* The timestamps of a list of records that are not None.
TimestampsOf(records) ==
  { get_timestamp_ms(records[k])[1] :
      k \in { j \in 1..Len(records) : get_timestamp_ms(records[j]) # None } }

ReferencePadLocation(supporting_text_div) ==
  IF supporting_text_div = None THEN UNKNOWN
  ELSE LET b == supporting_text_div[1]
           after == IF b.br THEN StrippedNodes(b.after_br) ELSE <<>>
       IN IF after # <<>> THEN JoinComma(after)
          ELSE IF strip(b.text) # <<>> THEN strip(b.text)
          ELSE UNKNOWN

\* C22: pad_location of an extracted record is resolved in three steps: the
\* trimmed, comma-joined text after the line break of the supporting-text
\* block; otherwise what remains of the block's text without the datetime
\* text; "Unknown" only when neither yields text.
C22_PadLocationThreeSteps ==
  (fetch_exit = "return" /\ html_data.source = NEXTSPACEFLIGHT) =>
    \A k \in 1..Len(html_data.cards) :
      processed_file.data[k].pad_location
        = ReferencePadLocation(html_data.cards[k].supporting)

\* ============================================================== daily flow
\* run_daily_sync_flow calls the three commands as functions of one process.
\* Its position is read off the reports of the stages: fetch_exit, the
\* planner's report and the position of the executor.
MaxFlowStages == 6

\* The flow has ended: a stage exited with an error (cli.py 711-716 and
\* 742-747 re-raise) or the executor is through.
FlowOver ==
  \/ fetch_exit = "exit1"
  \/ plan.result = "exit1"
  \/ pc \in {"done", "aborted"}

\* cli.py 695-720, step 1: fetch_data is called at the start of a flow.
FlowFetch ==
  /\ fetch_exit = "none" \/ FlowOver
  /\ commands < MaxFlowStages
  /\ commands' = commands + 1
  /\ LET r == fetch_data(html_data)
     IN /\ fetch_exit' = r.result
        /\ processed_file' = IF r.write THEN JsonFile(r.data)
                             ELSE processed_file
  /\ plan' = NoPlan
  /\ NoExecutor
  /\ UNCHANGED << html_data, call_vars, to_sync, progress, remote,
                  attempted_ever >>

\* Mutant: the flow goes on to the planner after a failed fetch.
FlowPlanAfterFailedFetch(search_ok) ==
  /\ fetch_exit \in {"return", "exit1"}
  /\ plan.result = "none"
  /\ pc = "idle"
  /\ commands < MaxFlowStages
  /\ commands' = commands + 1
  /\ LET r == IF processed_file.exists
              THEN prepare_feishu_sync(processed_file.data, Some("default"),
                                       remote, search_ok)
              ELSE [NoPlan EXCEPT !.result = "exit1"]
     IN /\ plan' = r
        /\ to_sync' = IF r.write
                      THEN [to_sync EXCEPT ![r.path] = JsonFile(r.data)]
                      ELSE to_sync
  /\ UNCHANGED << parse_vars, progress, remote, attempted_ever, pc,
                  exec_locals >>

\* cli.py 728-747, step 2: reached when fetch_data returned; the to-sync
\* path is passed explicitly and is the default one.
FlowPlan(search_ok) ==
  /\ fetch_exit = "return"
  /\ plan.result = "none"
  /\ pc = "idle"
  /\ commands < MaxFlowStages
  /\ commands' = commands + 1
  /\ LET r == IF processed_file.exists
              THEN prepare_feishu_sync(processed_file.data, Some("default"),
                                       remote, search_ok)
              ELSE [NoPlan EXCEPT !.result = "exit1"]
     IN /\ plan' = r
        /\ to_sync' = IF r.write
                      THEN [to_sync EXCEPT ![r.path] = JsonFile(r.data)]
                      ELSE to_sync
  /\ UNCHANGED << parse_vars, progress, remote, attempted_ever, pc,
                  exec_locals >>

\* cli.py 754-771, step 3: reached when prepare_feishu_sync returned; the
\* executor is skipped when there is no to-sync file.
FlowExec(pre_add_check) ==
  /\ plan.result = "return"
  /\ pc = "idle"
  /\ commands < MaxFlowStages
  /\ commands' = commands + 1
  /\ IF to_sync["default"].exists
     THEN execute_feishu_sync_start(to_sync, "default", pre_add_check)
     ELSE /\ pc' = "done"
          /\ UNCHANGED << exec_locals, progress >>
  /\ UNCHANGED << parse_vars, to_sync, remote, plan, attempted_ever >>

NextFlow ==
  \/ FlowFetch
  \/ \E ok \in BOOLEAN : FlowPlan(ok)
  \/ \E chk \in BOOLEAN : FlowExec(chk)
  \/ ExecPreWrite("ok")
  \/ \E s \in BOOLEAN, c \in BOOLEAN : ExecAttempt(s, c)
  \/ ExecPostWrite("ok")
  \/ ExecCleanup

FlowSpec == InitPipeline /\ [][NextFlow]_vars

\* C23: run_daily_sync_flow runs fetch, then plan, then execute: the planner
\* starts only after fetch_data returned without error, the executor starts
\* only after prepare_feishu_sync returned without error, and no create is
\* issued in a flow whose fetch or plan failed.
C23_FlowOrder ==
  [][ /\ plan'.result # "none" /\ plan' # plan => fetch_exit = "return"
      /\ (pc = "idle" /\ pc' # "idle") =>
           fetch_exit = "return" /\ plan.result = "return"
      /\ remote' # remote =>
           fetch_exit = "return" /\ plan.result = "return"
      /\ (fetch_exit' = "exit1" \/ plan'.result = "exit1") =>
           remote' = remote /\ pc' = "idle"
    ]_vars

\* A first flow went through its three stages and created a record; in the
\* second one the fetch returned and the planner exited with an error, and
\* the executor was not started.
C23_Witness ==
  /\ commands = 5
  /\ fetch_exit = "return"
  /\ plan.result = "exit1"
  /\ pc = "idle"
  /\ remote # <<>>

\* ============================================================= list_records
\* The rows of the store a search is run on, its filters and page sizes.
StoreRows == { add_launch_fields(RecAb), add_launch_fields(RecNeg),
               add_launch_fields(RecZero) }

MaxStoreRows == 3

StoreTables ==
  UNION { [1..n -> StoreRows] : n \in 0..MaxStoreRows }

SearchFilters ==
  { << <<"Source", "is", NEXTSPACEFLIGHT>> >>,
    << <<"Source", "is", NEXTSPACEFLIGHT>>,
       <<"time", "isGreaterOrEqual", 0>> >> }

PageSizes == {1, 2}

\* feishu_bitable.py 82-83: list_records is entered; nothing is collected
\* and there is no page token.  A row stands for the record of the store
\* and for the dict it is serialized to.
SearchCall(rows, filter, page_size) ==
  [pc |-> "request", rows |-> rows, filter |-> filter,
   page_size |-> page_size, page_token |-> None, all_records |-> <<>>,
   requests |-> 0, result |-> None]

InitPaging ==
  /\ commands = 0
  /\ to_sync = [p \in Paths |-> NoFile]
  /\ progress = NoProgress
  /\ remote = <<>>
  /\ plan = NoPlan
  /\ pc = "idle"
  /\ to_sync_file = "default"
  /\ enable_pre_add_check = FALSE
  /\ launches_to_sync = <<>>
  /\ start_index = 0
  /\ i = 0
  /\ successfully_added_count = 0
  /\ skipped_due_to_pre_check = 0
  /\ log = <<>>
  /\ interrupted_created = {}
  /\ attempted_ever = {}
  /\ html_data = NoPage
  /\ processed_file = NoFile
  /\ fetch_exit = "none"
  /\ parser_call = NoCall
  /\ search \in { SearchCall(r, f, ps) :
                    r \in StoreTables, f \in SearchFilters, ps \in PageSizes }

\* The page the store answers a request with: the matching rows from the
\* token on, whether more follow, and the token of the next page.
StorePage(s) ==
  LET matching == SelectRows(s.rows, s.filter)
      from == IF s.page_token = None THEN 0 ELSE s.page_token[1]
      to == IF from + s.page_size < Len(matching) THEN from + s.page_size
            ELSE Len(matching)
  IN [items |-> SubSeq(matching, from + 1, to),
      has_more |-> to < Len(matching),
      page_token |-> Some(to)]

\* Mutant: a failed request returns what was collected so far.
list_records_page_partial(s, success) ==
  IF ~success
  THEN [s EXCEPT !.pc = "returned", !.requests = @ + 1,
                 !.result = Some(s.all_records)]
  ELSE LET page == StorePage(s)
           collected == s.all_records \o page.items
       IN IF page.has_more
          THEN [s EXCEPT !.requests = @ + 1, !.all_records = collected,
                         !.page_token = page.page_token]
          ELSE [s EXCEPT !.pc = "returned", !.requests = @ + 1,
                         !.all_records = collected,
                         !.result = Some(collected)]

\* feishu_bitable.py 84-122 and 124-144: one turn of the loop.  A request
\* that fails ends the call with None; one that succeeds adds its items and
\* either takes the next token or ends the loop, after which the list is
\* returned.
list_records_page(s, success) ==
  IF ~success
  THEN [s EXCEPT !.pc = "returned", !.requests = @ + 1, !.result = None]
  ELSE LET page == StorePage(s)
           collected == s.all_records \o page.items
       IN IF page.has_more
          THEN [s EXCEPT !.requests = @ + 1, !.all_records = collected,
                         !.page_token = page.page_token]
          ELSE [s EXCEPT !.pc = "returned", !.requests = @ + 1,
                         !.all_records = collected,
                         !.result = Some(collected)]

\* One search request of the call under way is answered.
SearchPage(success) ==
  /\ search.pc = "request"
  /\ search' = list_records_page(search, success)
  /\ UNCHANGED << sync_vars, fetch_vars, parser_call >>

NextPaging == \E success \in BOOLEAN : SearchPage(success)

\* The loop keeps issuing requests until it returns.
PagingSpec == InitPaging /\ [][NextPaging]_vars /\ WF_vars(NextPaging)

\* The number of pages the matching rows of a call fill; an empty result is
\* one page.
PagesOf(s) ==
  LET n == Len(SelectRows(s.rows, s.filter))
  IN IF n = 0 THEN 1 ELSE (n + s.page_size - 1) \div s.page_size

\* C24: list_records follows the page tokens itself: it issues one search
\* per page, in page order, until the store reports no further page; it
\* returns the items of all pages concatenated in page order, which is the
\* whole list of matching rows; when a page request fails it returns None
\* and none of the items collected; and it returns in the end.
C24_ListRecordsPaging ==
  /\ [](/\ search.requests <= PagesOf(search)
        /\ search.pc = "request" =>
             /\ search.result = None
             /\ search.all_records
                  = SubSeq(SelectRows(search.rows, search.filter), 1,
                           search.requests * search.page_size)
        /\ (search.pc = "returned" /\ search.result # None) =>
             /\ search.requests = PagesOf(search)
             /\ search.result
                  = Some(list_records(search.rows, search.filter, TRUE).items))
  /\ [][search'.pc = "returned" /\ search'.result = None =>
          search'.requests >= 1 /\ search'.all_records = search.all_records
      ]_vars
  /\ <>(search.pc = "returned")

\* Three rows were returned after two requests of two rows a page.
C24_Witness ==
  /\ search.pc = "returned"
  /\ search.page_size = 2
  /\ search.requests = 2
  /\ search.result # None
  /\ Len(search.result[1]) = 3


\* --------------------------------------- claims on the next run of a batch
\* A step that starts the executor on the file and content of the run before.
NextRunStep ==
  /\ pc \in Stopped
  /\ ExecStartStep
  /\ to_sync_file' = to_sync_file
  /\ launches_to_sync' = launches_to_sync

\* The indices whose create failed in the run before.
FailedIndices == { log[k][1] : k \in { j \in 1..Len(log) : log[j][2] = "failed" } }

\* C25 as stated. A record whose create failed is attempted again by the next
\* run of the executor over the unchanged to-sync file: that run starts at or
\* below the index of every record whose create failed in the run before.
C25_FailedRetriedOnNextRun ==
  [][ NextRunStep => \A k \in FailedIndices : start_index' <= k ]_vars


\* ------------------------------------------- claims on one run's checkpoints
\* A step of the loop that leaves a new readable progress record on disk.
CheckpointWritten ==
  /\ pc \in {"pre_write", "post_write"}
  /\ progress' # progress
  /\ progress'.kind = "json"

\* The progress record on disk describes the batch of the run.
ProgressOfRun ==
  /\ progress.kind = "json"
  /\ progress.source_file = to_sync_file
  /\ progress.file_hash = generate_file_hash(launches_to_sync)

\* C26. During one run over a batch of N records started at start_index,
\* every progress record written carries the source file and the content hash
\* of the batch and a next_index within [start_index, N] that is not below the
\* next_index of the batch's record it replaces; every attempt is on an index
\* within [start_index, N) above every index attempted before in the run, so
\* each index is attempted at most once and in ascending order.
C26_RunCheckpoints ==
  [][ /\ CheckpointWritten =>
           /\ progress'.source_file = to_sync_file
           /\ progress'.file_hash = generate_file_hash(launches_to_sync)
           /\ progress'.next_index >= start_index
           /\ progress'.next_index <= Len(launches_to_sync)
           /\ ProgressOfRun => progress'.next_index >= progress.next_index
      /\ Len(log') > Len(log) =>
           /\ Len(log') = Len(log) + 1
           /\ log'[Len(log')][1] >= start_index
           /\ log'[Len(log')][1] < Len(launches_to_sync)
           /\ \A k \in 1..Len(log) : log[k][1] < log'[Len(log')][1] ]_vars

\* A resumed run that started at record 1 of three has attempted records 1
\* and 2 and has written its last checkpoint.
C26_Witness ==
  /\ pc = "cleanup"
  /\ start_index = 1
  /\ AttemptedIndices = <<1, 2>>
  /\ progress.kind = "json"
  /\ progress.next_index = 3


\* ------------------------------------------------- re-running the executor
\* The planner runs once, so the to-sync file stays as planned.
PlanOnce ==
  /\ commands = 0
  /\ \E parsed \in ProcessedInputs,
        out \in {None} \cup {Some(p) : p \in Paths}, ok \in BOOLEAN :
       Prepare(parsed, out, ok)

\* The operator runs execute_feishu_sync on the planned file, and again on
\* the same file each time the process was killed.
Rerun(pre_add_check) ==
  /\ pc \in {"idle", "crashed"}
  /\ plan.result # "none" \/ pc = "crashed"
  /\ \E path \in Paths :
       /\ to_sync[path].exists
       /\ to_sync[path].data # <<>>
       /\ pc = "idle" => path = plan.path
       /\ pc = "crashed" => path = to_sync_file
       /\ ExecStart(path, pre_add_check)

\* The process is killed only while another command can still be started.
CrashFinitely == commands < MaxCommands /\ Crash

\* The steps of the executor and of the operator who starts it again, with
\* every checkpoint write succeeding.
RerunSteps ==
  \/ \E chk \in BOOLEAN : Rerun(chk)
  \/ ExecPreWrite("ok")
  \/ \E s \in BOOLEAN, c \in BOOLEAN : ExecAttempt(s, c)
  \/ ExecPostWrite("ok")
  \/ ExecCleanup

NextRerun ==
  \/ PlanOnce
  \/ RerunSteps
  \/ CrashFinitely

\* A started process runs on until it ends or is killed, and a killed one is
\* started again.
RerunSpec == Init /\ [][NextRerun]_vars /\ WF_vars(RerunSteps)

\* Every record of the batch was attempted, by a create or by a skip.
AllAttempted ==
  \A k \in 0..(Len(launches_to_sync) - 1) :
    <<to_sync_file, current_file_hash, k>> \in attempted_ever

\* C27. With the to-sync file unchanged, every checkpoint write succeeding
\* and finitely many kills, re-running execute_feishu_sync on the file leads
\* to a run that has ended, with every record of the batch attempted at least
\* once and no progress file left.
C27_RerunsComplete ==
  (pc \notin {"idle", "done"})
    ~> (pc = "done" /\ AllAttempted /\ progress = NoProgress)

\* The third run over a batch of three records ended after two kills, having
\* attempted one record only.
C27_Witness ==
  /\ pc = "done"
  /\ commands = 4
  /\ Len(launches_to_sync) = 3
  /\ Len(log) = 1
  /\ AllAttempted
  /\ progress = NoProgress


\* ------------------------------------------ two batches, one progress file
\* The to-sync files the planner writes while the remote table is empty.
PlannedBatches ==
  { prepare_feishu_sync(parsed, None, <<>>, TRUE).data :
      parsed \in { p \in ProcessedInputs :
                     prepare_feishu_sync(p, None, <<>>, TRUE).write } }

\* Two planner runs have written a to-sync file each, one at the default
\* path and one at an explicit path; nothing is uploaded yet.
InitTwoBatches ==
  /\ commands = 0
  /\ to_sync \in [Paths -> { JsonFile(b) : b \in PlannedBatches }]
  /\ progress = NoProgress
  /\ remote = <<>>
  /\ plan = NoPlan
  /\ pc = "idle"
  /\ to_sync_file = "default"
  /\ enable_pre_add_check = FALSE
  /\ launches_to_sync = <<>>
  /\ start_index = 0
  /\ i = 0
  /\ successfully_added_count = 0
  /\ skipped_due_to_pre_check = 0
  /\ log = <<>>
  /\ interrupted_created = {}
  /\ attempted_ever = {}
  /\ NothingFetched

\* The runs of the executor followed over the two files.
MaxBatchRuns == 3

\* The executor is started on one file or the other.
StartOnBatch(path, pre_add_check) ==
  /\ commands < MaxBatchRuns
  /\ ExecStart(path, pre_add_check)

\* The executor is run on one file or the other, and may be killed.
NextTwoBatches ==
  \/ \E path \in Paths, chk \in BOOLEAN : StartOnBatch(path, chk)
  \/ \E o \in WriteOutcomes : ExecPreWrite(o)
  \/ \E s \in BOOLEAN, c \in BOOLEAN : ExecAttempt(s, c)
  \/ \E o \in WriteOutcomes : ExecPostWrite(o)
  \/ ExecCleanup
  \/ Crash

TwoBatchSpec == InitTwoBatches /\ [][NextTwoBatches]_vars

\* The batch a run is started on has had some of its records attempted, not
\* all of them.
PartlyUploaded(path, data) ==
  /\ \E k \in 0..(Len(data) - 1) :
       <<path, generate_file_hash(data), k>> \in attempted_ever
  /\ \E k \in 0..(Len(data) - 1) :
       <<path, generate_file_hash(data), k>> \notin attempted_ever

\* C28. There is one progress record for all batches: the first checkpoint of
\* a run over batch A leaves a progress file that describes A and nothing
\* else, and a run started on a partly uploaded batch B while the progress
\* file describes another batch starts at index 0.
C28_SingleProgressRecord ==
  [][ /\ (pc = "pre_write" /\ pc' = "attempt") =>
           progress' = ProgressJson(to_sync_file,
                                    generate_file_hash(launches_to_sync), i)
      /\ ( /\ ExecStartStep
           /\ PartlyUploaded(to_sync_file', launches_to_sync')
           /\ progress.kind = "json"
           /\ \/ progress.source_file # to_sync_file'
              \/ progress.file_hash # generate_file_hash(launches_to_sync') )
         => (start_index' = 0 /\ pc' = "pre_write") ]_vars

\* The third run is over the batch of the first, which was killed after its
\* record 0; the second run, over the other file, wrote the progress file;
\* the third run starts at record 0 again.
C28_Witness ==
  /\ commands = 3
  /\ pc = "pre_write"
  /\ start_index = 0
  /\ Len(launches_to_sync) = 3
  /\ <<to_sync_file, current_file_hash, 0>> \in attempted_ever
  /\ <<to_sync_file, current_file_hash, 2>> \notin attempted_ever
  /\ progress.kind = "json"
  /\ progress.source_file # to_sync_file
  /\ progress.next_index >= 1


\* ------------------------------------------ claims on a plan with no record
\* The values of the option --output-to-sync-file.
OutputOptions == {None} \cup {Some(p) : p \in Paths}

\* cli.py 409-411: the path the to-sync file is written to.
OutputPath(output_to_sync_file) ==
  IF output_to_sync_file = None THEN "default" ELSE output_to_sync_file[1]

\* Every sync-eligible record of the processed file has a row with its
\* business key in the remote table, and there is such a record.
AllStoredRemotely(processed_launches) ==
  LET valid == valid_launches_for_sync(processed_launches)
  IN /\ valid # <<>>
     /\ \A k \in 1..Len(valid) :
          BusinessKey(valid[k]) \in
            { RowBusinessKey(f) : f \in SeqRange(remote) }

\* C29 as stated. A planner run given an empty processed file, or one with
\* no sync-eligible record, overwrites the to-sync file with an empty array
\* when an explicit output path was given and leaves every to-sync file as it
\* was when none was given; a planner run whose eligible records are all
\* stored remotely, the query succeeding, writes an empty array to the
\* to-sync file.
C29_NothingToPlan ==
  [][ (commands' = commands + 1 /\ plan'.result # "none") =>
        /\ ( \/ plan'.processed = <<>>
             \/ /\ plan'.processed[1].source_name # ""
                /\ valid_launches_for_sync(plan'.processed) = <<>> )
           => \E out \in OutputOptions :
                /\ plan'.path = OutputPath(out)
                /\ to_sync' =
                     IF out # None
                     THEN [to_sync EXCEPT ![plan'.path] = JsonFile(<<>>)]
                     ELSE to_sync
        /\ ( /\ plan'.processed # <<>>
             /\ plan'.processed[1].source_name # ""
             /\ AllStoredRemotely(plan'.processed)
             /\ plan'.queried /\ ~plan'.query_failed )
           => to_sync' = [to_sync EXCEPT ![plan'.path] = JsonFile(<<>>)] ]_vars


====
